---- MODULE Spec2Model ----
(***************************************************************************)
(* Model of the kernel + bridge layer of polars_ta.wq.time_series.         *)
(*                                                                         *)
(* A call of one of the ts_* wrappers takes columns (sequences of values   *)
(* that are a number, null or NaN), converts them to float arrays, runs a  *)
(* kernel over them and hands the result back as a column.  Every call is  *)
(* one action: it draws its arguments, records them in `call` and the      *)
(* returned column(s) in `ret`; `frame` holds the caller's columns after   *)
(* the call and `pc` tells whether the call returned or raised.            *)
(* MIN_SAMPLES is the package-wide default polars_ta.MIN_SAMPLES.          *)
(* both_entries and partial_windows are the two choices the specification  *)
(* leaves to the kernels: which entry wins when both fire from Flat, and   *)
(* whether a window that is not yet d long may emit once it holds minp     *)
(* values.                                                                 *)
(* threads holds the invocations that run at the same time, each with its  *)
(* own position in its kernel's loop.                                      *)
(*                                                                         *)
(* The wrappers are polars_ta/wq/time_series.py.  The kernels              *)
(* (polars_ta/wq/_nb.py) and the bridge (polars_ta/utils/numba_.py) are    *)
(* imported by that file; they are modelled from the specification and     *)
(* from the worked examples of the wrappers' docstrings.                   *)
(***************************************************************************)
EXTENDS Integers, Sequences, FiniteSets, TLC

VARIABLES pc, call, ret, frame, MIN_SAMPLES, both_entries, partial_windows, threads

vars == <<pc, call, ret, frame, MIN_SAMPLES, both_entries, partial_windows, threads>>

-----------------------------------------------------------------------------
(* Values.  A column cell is null, NaN or a number; a float array cell is  *)
(* NaN or a number.  Small integers stand for floats: every sum and        *)
(* product the bounded inputs produce is exact in float64.                 *)

null == [t |-> "null"]
nan == [t |-> "nan"]
f(n) == [t |-> "num", v |-> n]

isnull(c) == c.t = "null"
isnan(c) == c.t = "nan"

sign(n) == IF n > 0 THEN 1 ELSE IF n < 0 THEN -1 ELSE 0

\* float addition and multiplication: NaN is absorbing
fadd(a, b) == IF isnan(a) \/ isnan(b) THEN nan ELSE f(a.v + b.v)
fmul(a, b) == IF isnan(a) \/ isnan(b) THEN nan ELSE f(a.v * b.v)

\* Series.to_numpy() of a column with nulls: a float array, null read as NaN
to_numpy(x) == [i \in 1..Len(x) |-> IF isnull(x[i]) THEN nan ELSE x[i]]

\* ndarray.astype(float): the array is a float array already
astype_float(a) == [i \in 1..Len(a) |-> IF isnan(a[i]) THEN nan ELSE f(a[i].v)]

\* Series(array, nan_to_null=True): the kernel's NaN comes back as null
nan_to_null(a) == [i \in 1..Len(a) |-> IF isnan(a[i]) THEN null ELSE a[i]]

\* struct_to_numpy(xx, n, dtype=float) of boolean fields: True is 1.0, False 0.0
bool_to_float(x) == [i \in 1..Len(x) |-> IF x[i] THEN f(1) ELSE f(0)]
struct_to_numpy_float(xx, n) == [j \in 1..n |-> bool_to_float(xx[j])]

\* truth of a float cell, as `if a[i]:` reads it
truthy(c) == isnan(c) \/ c.v # 0

\* struct_to_numpy(xx, n): the first n fields of the struct, each as an array
struct_to_numpy(xx, n) == [j \in 1..n |-> to_numpy(xx[j])]

\* an Optional[int] argument: None, or Some(n)
None == <<>>
Some(n) == <<n>>

\* Python's `a or b` on Optional[int]: a unless a is None or 0
or_(a, b) == IF a # None /\ a[1] # 0 THEN a ELSE b

abs(n) == IF n < 0 THEN -n ELSE n

RECURSIVE gcd(_, _)
gcd(a, b) == IF b = 0 THEN a ELSE gcd(b, a % b)

RECURSIVE pow(_, _)
pow(b, k) == IF k = 0 THEN 1 ELSE b * pow(b, k - 1)

\* the float n / d for d > 0: a whole number, or a fraction in lowest terms
frac(n, d) ==
    LET g == gcd(abs(n), d)
    IN IF d \div g = 1 THEN f(n \div g)
       ELSE [t |-> "num", v |-> n \div g, den |-> d \div g]

-----------------------------------------------------------------------------
(* Sequential state kernels *)

\* one step of _cum_sum_reset: the running sum after the value cur
cum_sum_reset_step(last, cur) ==
    IF isnan(cur) THEN 0
    ELSE IF cur.v = 0 THEN 0
    ELSE IF sign(cur.v) * sign(last) < 0 THEN cur.v
    ELSE last + cur.v

\* _cum_sum_reset: cumulative sum that restarts at 0, NaN and a sign change
RECURSIVE cum_sum_reset_loop(_, _, _, _)
cum_sum_reset_loop(a, i, last, out) ==
    IF i > Len(a) THEN out
    ELSE LET new == cum_sum_reset_step(last, a[i])
         IN cum_sum_reset_loop(a, i + 1, new, Append(out, f(new)))

_cum_sum_reset(a) == cum_sum_reset_loop(a, 1, 0, <<>>)

\* Expr.cum_sum(): nulls stay null and are skipped by the running total
RECURSIVE cum_sum_loop(_, _, _, _)
cum_sum_loop(x, i, total, out) ==
    IF i > Len(x) THEN out
    ELSE IF isnull(x[i]) THEN cum_sum_loop(x, i + 1, total, Append(out, null))
    ELSE cum_sum_loop(x, i + 1, fadd(total, x[i]), Append(out, fadd(total, x[i])))

cum_sum(x) == cum_sum_loop(x, 1, f(0), <<>>)

\* _cum_sum_by / _cum_prod_by: the running value is v where v is given, else
\* the previous running value combined with r; nothing before the first v
RECURSIVE cum_sum_by_loop(_, _, _, _, _)
cum_sum_by_loop(r, v, i, last, out) ==
    IF i > Len(r) THEN out
    ELSE LET new == IF ~isnan(v[i]) THEN v[i] ELSE fadd(last, r[i])
         IN cum_sum_by_loop(r, v, i + 1, new, Append(out, new))

_cum_sum_by(r, v) == cum_sum_by_loop(r, v, 1, nan, <<>>)

RECURSIVE cum_prod_by_loop(_, _, _, _, _)
cum_prod_by_loop(r, v, i, last, out) ==
    IF i > Len(r) THEN out
    ELSE LET new == IF ~isnan(v[i]) THEN v[i] ELSE fmul(last, r[i])
         IN cum_prod_by_loop(r, v, i + 1, new, Append(out, new))

_cum_prod_by(r, v) == cum_prod_by_loop(r, v, 1, nan, <<>>)

-----------------------------------------------------------------------------
(* Rank-split windowed sum *)

\* argsort order of the window's by values: ascending, NaN last, equal values
\* in index order
sorts_before(by, p, q) ==
    IF isnan(by[p]) THEN isnan(by[q]) /\ p < q
    ELSE IF isnan(by[q]) THEN TRUE
    ELSE by[p].v < by[q].v \/ (by[p].v = by[q].v /\ p < q)

\* the place (from 1) of position p in the sorted window lo..hi
sorted_place(by, lo, hi, p) == 1 + Cardinality({q \in lo..hi : sorts_before(by, q, p)})

\* the sum of x over the window positions whose sorted place is in from..to
RECURSIVE sum_places(_, _, _, _, _, _, _)
sum_places(x, by, lo, hi, from, to, p) ==
    IF p > hi THEN f(0)
    ELSE LET rest == sum_places(x, by, lo, hi, from, to, p + 1)
             place == sorted_place(by, lo, hi, p)
         IN IF place >= from /\ place <= to THEN fadd(x[p], rest) ELSE rest

\* _sum_split_by: per full window, the sum of x at the first k places of the
\* window sorted by `by`, and the sum of x at the last k places
_sum_split_by(x, by, d, k) ==
    [i \in 1..Len(x) |->
        IF i < d THEN <<nan, nan>>
        ELSE LET lo == i - d + 1
             IN <<sum_places(x, by, lo, i, 1, k, lo),
                  sum_places(x, by, lo, i, d - k + 1, d, lo)>>]

-----------------------------------------------------------------------------
(* Signal-to-position state machine *)

Flat == "Flat"
Long == "Long"
Short == "Short"

\* what the kernel does with long_entry and short_entry on one bar from Flat:
\* the rule is fixed by the implementation and the specification leaves it open
TieRules == {"long", "short", "none"}

\* one bar: the position record [state, size] after the bar's four signals
signals_step(pos, le, lx, se, sx, accumulate) ==
    CASE pos.state = Flat ->
            IF le /\ se THEN
                CASE both_entries = "long" -> [state |-> Long, size |-> 1]
                  [] both_entries = "short" -> [state |-> Short, size |-> -1]
                  [] OTHER -> pos
            ELSE IF le THEN [state |-> Long, size |-> 1]
            ELSE IF se THEN [state |-> Short, size |-> -1]
            ELSE pos
      [] pos.state = Long ->
            IF lx THEN
                IF accumulate /\ le THEN [pos EXCEPT !.size = @ + 1]
                ELSE [state |-> Flat, size |-> 0]
            ELSE IF le /\ accumulate THEN [pos EXCEPT !.size = @ + 1]
            ELSE pos
      [] pos.state = Short ->
            IF sx THEN
                IF accumulate /\ se THEN [pos EXCEPT !.size = @ - 1]
                ELSE [state |-> Flat, size |-> 0]
            ELSE IF se /\ accumulate THEN [pos EXCEPT !.size = @ - 1]
            ELSE pos

\* the position records after each bar, starting Flat
RECURSIVE signals_loop(_, _, _, _, _, _, _, _)
signals_loop(le, lx, se, sx, accumulate, i, pos, out) ==
    IF i > Len(le) THEN out
    ELSE LET new == signals_step(pos, truthy(le[i]), truthy(lx[i]),
                                 truthy(se[i]), truthy(sx[i]), accumulate)
         IN signals_loop(le, lx, se, sx, accumulate, i + 1, new, Append(out, new))

signals_positions(le, lx, se, sx, accumulate) ==
    signals_loop(le, lx, se, sx, accumulate, 1, [state |-> Flat, size |-> 0], <<>>)

\* _signals_to_size: the size after each bar, or with action the change of
\* size on each bar
_signals_to_size(le, lx, se, sx, accumulate, action) ==
    LET ps == signals_positions(le, lx, se, sx, accumulate)
    IN [i \in 1..Len(ps) |->
            IF action THEN f(ps[i].size - (IF i = 1 THEN 0 ELSE ps[i - 1].size))
            ELSE f(ps[i].size)]

-----------------------------------------------------------------------------
(* Window statistics kernels.  The output at i is computed from the rows   *)
(* of the window [i-d+1, i] where every input holds a value.  The exact    *)
(* value of a correlation-type statistic is not a rational number: it is   *)
(* kept as a term over the rows it is computed from.                       *)

\* the positions of the window that ends at i
window(i, d) == {p \in (i - d + 1)..i : p >= 1}

\* the oldest position of the window that ends at i
oldest(i, d) == IF i - d + 1 >= 1 THEN i - d + 1 ELSE 1

\* the rows of the window where every array of xx holds a value
valid(xx, i, d) == {p \in window(i, d) : \A j \in 1..Len(xx) : ~isnan(xx[j][p])}

\* the window gives a value: it holds minp values, and it is d long unless
\* the kernels let a shorter window emit
emits(xx, i, d, minp) ==
    /\ Cardinality(valid(xx, i, d)) >= minp
    /\ partial_windows \/ i >= d

\* the most recent position of V holding the highest value of x
last_max(x, V) ==
    CHOOSE p \in V : \A q \in V : x[q].v < x[p].v \/ (x[q].v = x[p].v /\ q <= p)

\* the most recent position of V holding the lowest value of x
last_min(x, V) ==
    CHOOSE p \in V : \A q \in V : x[q].v > x[p].v \/ (x[q].v = x[p].v /\ q <= p)

\* the distance of position p from the current position i, or with
\* reverse = False its offset from the oldest position of the window
arg_out(p, i, d, reverse) == IF reverse THEN f(i - p) ELSE f(p - oldest(i, d))

roll_argmax(x, d, minp, reverse) ==
    [i \in 1..Len(x) |->
        IF emits(<<x>>, i, d, minp)
        THEN arg_out(last_max(x, valid(<<x>>, i, d)), i, d, reverse)
        ELSE nan]

roll_argmin(x, d, minp, reverse) ==
    [i \in 1..Len(x) |->
        IF emits(<<x>>, i, d, minp)
        THEN arg_out(last_min(x, valid(<<x>>, i, d)), i, d, reverse)
        ELSE nan]

RECURSIVE sum_of(_, _)
\* the sum of x over the positions V
sum_of(x, V) ==
    IF V = {} THEN 0
    ELSE LET p == CHOOSE q \in V : TRUE IN x[p].v + sum_of(x, V \ {p})

RECURSIVE prod_of(_, _)
\* the product of x over the positions V
prod_of(x, V) ==
    IF V = {} THEN 1
    ELSE LET p == CHOOSE q \in V : TRUE IN x[p].v * prod_of(x, V \ {p})

RECURSIVE moment_sum(_, _, _, _, _)
\* the sum over W of (n * x - S) ^ k, for n values of sum S
moment_sum(x, W, n, S, k) ==
    IF W = {} THEN 0
    ELSE LET p == CHOOSE q \in W : TRUE
         IN pow(n * x[p].v - S, k) + moment_sum(x, W \ {p}, n, S, k)

\* the k-th central moment: the mean of (x - mean) ^ k over the valid rows
roll_moment(x, d, minp, k) ==
    [i \in 1..Len(x) |->
        IF emits(<<x>>, i, d, minp)
        THEN LET V == valid(<<x>>, i, d)
                 n == Cardinality(V)
             IN frac(moment_sum(x, V, n, sum_of(x, V), k), pow(n, k + 1))
        ELSE nan]

roll_prod(x, d, minp) ==
    [i \in 1..Len(x) |->
        IF emits(<<x>>, i, d, minp) THEN f(prod_of(x, valid(<<x>>, i, d))) ELSE nan]

\* the k-th position of V in time order
nth(V, k) == CHOOSE p \in V : Cardinality({q \in V : q < p}) = k - 1

\* the statistic named name of the rows V of the arrays xx
stat(name, xx, V) ==
    [t |-> "stat", of |-> name,
     rows |-> [k \in 1..Cardinality(V) |-> [j \in 1..Len(xx) |-> xx[j][nth(V, k)].v]]]

\* x has no variance over V: a standardised moment divides by zero
constant(x, V) == \A p, q \in V : x[p].v = x[q].v

RECURSIVE sum_of2(_, _, _)
\* the sum of x * y over the positions V
sum_of2(x, y, V) ==
    IF V = {} THEN 0
    ELSE LET p == CHOOSE q \in V : TRUE IN x[p].v * y[p].v + sum_of2(x, y, V \ {p})

\* n^2 times the covariance of x and y over the n positions V
cov_n(x, y, V) == Cardinality(V) * sum_of2(x, y, V) - sum_of(x, V) * sum_of(y, V)

\* the Pearson correlation of x and y over V is 1 or -1
collinear(x, y, V) == cov_n(x, y, V) * cov_n(x, y, V) = cov_n(x, x, V) * cov_n(y, y, V)

roll_co_skewness(x, y, d, minp) ==
    [i \in 1..Len(x) |->
        LET V == valid(<<x, y>>, i, d)
        IN IF emits(<<x, y>>, i, d, minp) /\ ~constant(x, V) /\ ~constant(y, V)
           THEN stat("co_skewness", <<x, y>>, V)
           ELSE nan]

roll_co_kurtosis(x, y, d, minp) ==
    [i \in 1..Len(x) |->
        LET V == valid(<<x, y>>, i, d)
        IN IF emits(<<x, y>>, i, d, minp) /\ ~constant(x, V) /\ ~constant(y, V)
           THEN stat("co_kurtosis", <<x, y>>, V)
           ELSE nan]

\* (r_xy - r_xz * r_yz) / sqrt((1 - r_xz^2) * (1 - r_yz^2))
roll_partial_corr(x, y, z, d, minp) ==
    [i \in 1..Len(x) |->
        LET V == valid(<<x, y, z>>, i, d)
        IN IF /\ emits(<<x, y, z>>, i, d, minp)
              /\ ~constant(x, V) /\ ~constant(y, V) /\ ~constant(z, V)
              /\ ~collinear(x, z, V) /\ ~collinear(y, z, V)
           THEN stat("partial_corr", <<x, y, z>>, V)
           ELSE nan]

roll_triple_corr(x, y, z, d, minp) ==
    [i \in 1..Len(x) |->
        LET V == valid(<<x, y, z>>, i, d)
        IN IF /\ emits(<<x, y, z>>, i, d, minp)
              /\ ~constant(x, V) /\ ~constant(y, V) /\ ~constant(z, V)
           THEN stat("triple_corr", <<x, y, z>>, V)
           ELSE nan]

-----------------------------------------------------------------------------
(* The bridge: the kernel named func applied to the arrays, its result     *)
(* returned as a column.                                                   *)

\* the outcome of a call: it raised, or it returned the column out
returned(out) == [raised |-> FALSE, out |-> out]
ConfigurationError == [raised |-> TRUE, out |-> <<>>]

Windowed == {"roll_argmax", "roll_argmin", "roll_moment", "roll_prod",
             "roll_co_skewness", "roll_co_kurtosis", "roll_partial_corr",
             "roll_triple_corr"}

\* the bridge's checks: arrays of one length, d >= 1, 1 <= minp <= d
bridge_rejects(xx, func, args) ==
    \/ \E j \in 1..Len(xx) : Len(xx[j]) # Len(xx[1])
    \/ func \in Windowed /\ (args[1] < 1 \/ args[2] < 1 \/ args[2] > args[1])
    \/ func = "_sum_split_by" /\ args[1] < 1

\* args: the scalar parameters that follow the kernel in the call
kernel_i1(func, x1, args) ==
    CASE func = "_cum_sum_reset" -> _cum_sum_reset(x1)
      [] func = "roll_argmax" -> roll_argmax(x1, args[1], args[2], args[3])
      [] func = "roll_argmin" -> roll_argmin(x1, args[1], args[2], args[3])
      [] func = "roll_moment" -> roll_moment(x1, args[1], args[2], args[3])
      [] func = "roll_prod" -> roll_prod(x1, args[1], args[2])

batches_i1_o1(x1, func, args) ==
    IF bridge_rejects(<<x1>>, func, args) THEN ConfigurationError
    ELSE returned(nan_to_null(kernel_i1(func, x1, args)))

kernel_i2(func, xx, args) ==
    CASE func = "_cum_sum_by" -> _cum_sum_by(xx[1], xx[2])
      [] func = "_cum_prod_by" -> _cum_prod_by(xx[1], xx[2])
      [] func = "_signals_to_size" ->
            _signals_to_size(xx[1], xx[2], xx[3], xx[4], args[1], args[2])
      [] func = "roll_co_skewness" -> roll_co_skewness(xx[1], xx[2], args[1], args[2])
      [] func = "roll_co_kurtosis" -> roll_co_kurtosis(xx[1], xx[2], args[1], args[2])
      [] func = "roll_partial_corr" ->
            roll_partial_corr(xx[1], xx[2], xx[3], args[1], args[2])
      [] func = "roll_triple_corr" ->
            roll_triple_corr(xx[1], xx[2], xx[3], args[1], args[2])

batches_i2_o1(xx, func, args) ==
    IF bridge_rejects(xx, func, args) THEN ConfigurationError
    ELSE returned(nan_to_null(kernel_i2(func, xx, args)))

kernel_i2_o2(func, xx, args) ==
    CASE func = "_sum_split_by" -> _sum_split_by(xx[1], xx[2], args[1], args[2])

\* two output arrays, returned as one column of structs of two fields
batches_i2_o2(xx, func, args) ==
    IF bridge_rejects(xx, func, args) THEN ConfigurationError
    ELSE LET out == kernel_i2_o2(func, xx, args)
         IN returned([i \in 1..Len(out) |-> nan_to_null(out[i])])

-----------------------------------------------------------------------------
(* The wrappers *)

\* minp = min_samples or polars_ta.MIN_SAMPLES or d
resolve_minp(min_samples, d) == or_(or_(min_samples, MIN_SAMPLES), Some(d))[1]

ts_arg_max_not_reverse(x, d, reverse, min_samples) ==
    batches_i1_o1(to_numpy(x), "roll_argmax", <<d, resolve_minp(min_samples, d), ~reverse>>)

ts_arg_max_as_min(x, d, reverse, min_samples) ==
    batches_i1_o1(to_numpy(x), "roll_argmin", <<d, resolve_minp(min_samples, d), reverse>>)

ts_arg_max_minp_one(x, d, reverse, min_samples) ==
    batches_i1_o1(to_numpy(x), "roll_argmax", <<d, 1, reverse>>)

ts_arg_max_minp_clamped(x, d, reverse, min_samples) ==
    LET minp == resolve_minp(min_samples, d)
    IN batches_i1_o1(to_numpy(x), "roll_argmax", <<d, IF minp > d THEN d ELSE minp, reverse>>)

ts_arg_max(x, d, reverse, min_samples) ==
    batches_i1_o1(to_numpy(x), "roll_argmax", <<d, resolve_minp(min_samples, d), reverse>>)

\* reverse is accepted and not passed on: the kernel always counts back
ts_arg_min_ignores_reverse(x, d, reverse, min_samples) ==
    batches_i1_o1(to_numpy(x), "roll_argmin", <<d, resolve_minp(min_samples, d), TRUE>>)

ts_arg_min(x, d, reverse, min_samples) ==
    batches_i1_o1(to_numpy(x), "roll_argmin", <<d, resolve_minp(min_samples, d), reverse>>)

\* ddof is accepted and not passed on
ts_co_kurtosis(x, y, d, ddof, min_samples) ==
    batches_i2_o1(struct_to_numpy(<<x, y>>, 2), "roll_co_kurtosis",
                  <<d, resolve_minp(min_samples, d)>>)

ts_co_skewness(x, y, d, ddof, min_samples) ==
    batches_i2_o1(struct_to_numpy(<<x, y>>, 2), "roll_co_skewness",
                  <<d, resolve_minp(min_samples, d)>>)

\* a NaN of x is handed over as the number 0, a null as NaN
ts_moment_nan_as_zero(x, d, k, min_samples) ==
    batches_i1_o1([i \in 1..Len(x) |->
                      IF isnull(x[i]) THEN nan ELSE IF isnan(x[i]) THEN f(0) ELSE x[i]],
                  "roll_moment", <<d, resolve_minp(min_samples, d), k>>)

ts_moment(x, d, k, min_samples) ==
    batches_i1_o1(to_numpy(x), "roll_moment", <<d, resolve_minp(min_samples, d), k>>)

ts_partial_corr(x, y, z, d, min_samples) ==
    batches_i2_o1(struct_to_numpy(<<x, y, z>>, 3), "roll_partial_corr",
                  <<d, resolve_minp(min_samples, d)>>)

\* the zeros of x are handed over as missing
ts_product_skip_zero(x, d, min_samples) ==
    batches_i1_o1([i \in 1..Len(x) |-> IF isnull(x[i]) \/ x[i].v = 0 THEN nan ELSE x[i]],
                  "roll_prod", <<d, resolve_minp(min_samples, d)>>)

ts_product(x, d, min_samples) ==
    batches_i1_o1(to_numpy(x), "roll_prod", <<d, resolve_minp(min_samples, d)>>)

ts_triple_corr(x, y, z, d, min_samples) ==
    batches_i2_o1(struct_to_numpy(<<x, y, z>>, 3), "roll_triple_corr",
                  <<d, resolve_minp(min_samples, d)>>)

\* the minp the expression evaluates with when it reads the package default
\* at evaluation time
captured_minp_late(c) == resolve_minp(c.min_samples, c.d)

\* the minp the callback of the expression built by call c holds: the local
\* variable of the wrapper, assigned when the wrapper ran
captured_minp(c) == c.minp

\* the callback an expression built by a windowed wrapper hands to
\* map_batches, run on the columns of call c with the given minp
evaluate(c, minp) ==
    CASE c.fn = "ts_arg_max" ->
            batches_i1_o1(to_numpy(c.x), "roll_argmax", <<c.d, minp, c.reverse>>)
      [] c.fn = "ts_arg_min" ->
            batches_i1_o1(to_numpy(c.x), "roll_argmin", <<c.d, minp, c.reverse>>)
      [] c.fn = "ts_moment" ->
            batches_i1_o1(to_numpy(c.x), "roll_moment", <<c.d, minp, c.k>>)
      [] c.fn = "ts_product" ->
            batches_i1_o1(to_numpy(c.x), "roll_prod", <<c.d, minp>>)
      [] c.fn = "ts_co_skewness" ->
            batches_i2_o1(struct_to_numpy(<<c.x, c.y>>, 2), "roll_co_skewness", <<c.d, minp>>)
      [] c.fn = "ts_co_kurtosis" ->
            batches_i2_o1(struct_to_numpy(<<c.x, c.y>>, 2), "roll_co_kurtosis", <<c.d, minp>>)
      [] c.fn = "ts_partial_corr" ->
            batches_i2_o1(struct_to_numpy(<<c.x, c.y, c.z>>, 3), "roll_partial_corr",
                          <<c.d, minp>>)
      [] c.fn = "ts_triple_corr" ->
            batches_i2_o1(struct_to_numpy(<<c.x, c.y, c.z>>, 3), "roll_triple_corr",
                          <<c.d, minp>>)

\* the non-null values of x in the window of d rows ending at i
rolling_values(x, i, d) == {x[p].v : p \in {q \in (i - d + 1)..i : q >= 1 /\ ~isnull(x[q])}}

\* Expr.rolling_max(d, min_samples): null unless the window holds
\* min_samples non-null values, d of them when min_samples is None
rolling_max(x, d, min_samples) ==
    [i \in 1..Len(x) |->
        LET V == {p \in (i - d + 1)..i : p >= 1 /\ ~isnull(x[p])}
            S == rolling_values(x, i, d)
        IN IF V # {} /\ Cardinality(V) >= (IF min_samples = None THEN d ELSE min_samples[1])
           THEN f(CHOOSE u \in S : \A w \in S : w <= u)
           ELSE null]

rolling_min(x, d, min_samples) ==
    [i \in 1..Len(x) |->
        LET V == {p \in (i - d + 1)..i : p >= 1 /\ ~isnull(x[p])}
            S == rolling_values(x, i, d)
        IN IF V # {} /\ Cardinality(V) >= (IF min_samples = None THEN d ELSE min_samples[1])
           THEN f(CHOOSE u \in S : \A w \in S : w >= u)
           ELSE null]

ts_max(x, d, min_samples) == rolling_max(x, d, or_(min_samples, MIN_SAMPLES))

ts_min(x, d, min_samples) == rolling_min(x, d, or_(min_samples, MIN_SAMPLES))

\* when(a != b).then((x - a) / (b - a)).otherwise(None)
ts_scale_otherwise_null(x, d, min_samples) ==
    LET a == ts_min(x, d, min_samples)
        b == ts_max(x, d, min_samples)
    IN [i \in 1..Len(x) |->
            IF ~isnull(a[i]) /\ ~isnull(b[i]) /\ a[i] # b[i]
            THEN IF isnull(x[i]) THEN null ELSE frac(x[i].v - a[i].v, b[i].v - a[i].v)
            ELSE null]

\* when(a != b).then((x - a) / (b - a)).otherwise(0): a comparison with a
\* null is null and takes the otherwise branch
ts_scale(x, d, min_samples) ==
    LET a == ts_min(x, d, min_samples)
        b == ts_max(x, d, min_samples)
    IN [i \in 1..Len(x) |->
            IF ~isnull(a[i]) /\ ~isnull(b[i]) /\ a[i] # b[i]
            THEN IF isnull(x[i]) THEN null ELSE frac(x[i].v - a[i].v, b[i].v - a[i].v)
            ELSE f(0)]

\* the cells of a boolean column, beside null
True == [t |-> "true"]
False == [t |-> "false"]

\* Expr.shift(n) for n >= 0: the value n rows earlier, null in the first n rows
shift(x, n) == [i \in 1..Len(x) |-> IF i - n >= 1 THEN x[i - n] ELSE null]

\* all_horizontal(exprs): the AND across the columns of each row; a false
\* decides the row, otherwise a null makes it null
all_horizontal(exprs) ==
    [i \in 1..Len(exprs[1]) |->
        IF \E j \in 1..Len(exprs) : exprs[j][i] = False THEN False
        ELSE IF \E j \in 1..Len(exprs) : isnull(exprs[j][i]) THEN null
        ELSE True]

\* all_horizontal(arg.shift(i) for i, arg in enumerate(args, 1))
ts_shifts_v1_from_one(args) ==
    all_horizontal([i \in 1..Len(args) |-> shift(args[i], i)])

\* enumerate counts from 0: the i-th argument is shifted by i - 1
ts_shifts_v1(args) ==
    all_horizontal([i \in 1..Len(args) |-> shift(args[i], i - 1)])

\* more_itertools.chunked(args, n): consecutive pieces of n items, the last
\* one shorter when n does not divide the length
chunked(args, n) ==
    [k \in 1..((Len(args) + n - 1) \div n) |->
        SubSeq(args, (k - 1) * n + 1, IF k * n <= Len(args) THEN k * n ELSE Len(args))]

\* [item] * count: empty when count <= 0
times(item, count) == [j \in 1..count |-> item]

RECURSIVE chain_from_iterable(_)
chain_from_iterable(its) ==
    IF its = <<>> THEN <<>> ELSE Head(its) \o chain_from_iterable(Tail(its))

\* ts_shifts_v1(*chain.from_iterable([item] for item, count in chunked(args, 2)))
ts_shifts_v2_no_repeat(args) ==
    LET pairs == chunked(args, 2)
    IN ts_shifts_v1(chain_from_iterable(
           [k \in 1..Len(pairs) |-> times(pairs[k][1], 1)]))

ts_shifts_v2(args) ==
    LET pairs == chunked(args, 2)
    IN ts_shifts_v1(chain_from_iterable(
           [k \in 1..Len(pairs) |-> times(pairs[k][1], pairs[k][2])]))

\* any_horizontal(exprs): the OR across the columns of each row; a true
\* decides the row, otherwise a null makes it null
any_horizontal(exprs) ==
    [i \in 1..Len(exprs[1]) |->
        IF \E j \in 1..Len(exprs) : exprs[j][i] = True THEN True
        ELSE IF \E j \in 1..Len(exprs) : isnull(exprs[j][i]) THEN null
        ELSE False]

\* range(lo, hi): lo, lo + 1, ..., hi - 1
range(lo, hi) == [i \in 1..(hi - lo) |-> lo + i - 1]

\* itertools.product(*ranges): every choice of one member per range, the
\* last range varying fastest
RECURSIVE product(_)
product(ranges) ==
    IF ranges = <<>> THEN <<<<>>>>
    ELSE LET rest == product(Tail(ranges))
         IN chain_from_iterable(
                [i \in 1..Len(Head(ranges)) |->
                    [j \in 1..Len(rest) |-> <<Head(ranges)[i]>> \o rest[j]]])

\* zip(a, b): the pairs of members at the same place
zip(a, b) == [k \in 1..(IF Len(a) <= Len(b) THEN Len(a) ELSE Len(b)) |-> <<a[k], b[k]>>]

\* all_horizontal(ts_shifts_v2(*_) for _ in outputs)
ts_shifts_v3_all(args) ==
    LET triples == chunked(args, 3)
        exprs == [k \in 1..Len(triples) |-> triples[k][1]]
        ranges == [k \in 1..Len(triples) |-> range(triples[k][2], triples[k][3] + 1)]
        counts == product(ranges)
        outputs == [m \in 1..Len(counts) |-> chain_from_iterable(zip(exprs, counts[m]))]
    IN all_horizontal([m \in 1..Len(outputs) |-> ts_shifts_v2(outputs[m])])

ts_shifts_v3(args) ==
    LET triples == chunked(args, 3)
        exprs == [k \in 1..Len(triples) |-> triples[k][1]]
        ranges == [k \in 1..Len(triples) |-> range(triples[k][2], triples[k][3] + 1)]
        counts == product(ranges)
        outputs == [m \in 1..Len(counts) |-> chain_from_iterable(zip(exprs, counts[m]))]
    IN any_horizontal([m \in 1..Len(outputs) |-> ts_shifts_v2(outputs[m])])

\* Expr.rank(method='dense'): 1 for the lowest value, equal values share a
\* rank, the next distinct value has the next rank; null stays null
rank_dense(x) ==
    [i \in 1..Len(x) |->
        IF isnull(x[i]) THEN null
        ELSE f(1 + Cardinality({x[j].v : j \in {q \in 1..Len(x) :
                                   ~isnull(x[q]) /\ x[q].v < x[i].v}}))]

\* Expr.max(): the highest non-null value, null when there is none
col_max(a) ==
    LET S == {a[j].v : j \in {q \in 1..Len(a) : ~isnull(a[q])}}
    IN IF S = {} THEN null ELSE f(CHOOSE u \in S : \A w \in S : w <= u)

\* cast(Int8) of a boolean
cast_Int8(p) == IF p THEN 1 ELSE 0

\* (a <= k).cast(Int8) - (b < k).cast(Int8)
cs_top_bottom_swapped(x, k) ==
    LET a == rank_dense(x)
        m == col_max(a)
    IN [i \in 1..Len(x) |->
            IF isnull(a[i]) THEN null
            ELSE f(cast_Int8(a[i].v <= k) - cast_Int8(m.v - a[i].v < k))]

cs_top_bottom(x, k) ==
    LET a == rank_dense(x)
        m == col_max(a)
    IN [i \in 1..Len(x) |->
            IF isnull(a[i]) THEN null
            ELSE f(cast_Int8(m.v - a[i].v < k) - cast_Int8(a[i].v <= k))]

ts_cum_sum(x) == cum_sum(x)

ts_cum_sum_reset_drop_nulls(x) ==
    batches_i1_o1(astype_float(to_numpy(SelectSeq(x, LAMBDA c : ~isnull(c)))),
                  "_cum_sum_reset", <<>>)

ts_cum_sum_reset_as_cum_sum(x) == returned(ts_cum_sum(x))
ts_cum_sum_reset(x) == batches_i1_o1(astype_float(to_numpy(x)), "_cum_sum_reset", <<>>)

\* Expr.fill_null(0)
fill_null_0(x) == [i \in 1..Len(x) |-> IF isnull(x[i]) THEN f(0) ELSE x[i]]

ts_cum_sum_by_fill_null(r, v) ==
    batches_i2_o1(struct_to_numpy(<<r, fill_null_0(v)>>, 2), "_cum_sum_by", <<>>)

ts_cum_sum_by_swapped(r, v) == batches_i2_o1(struct_to_numpy(<<v, r>>, 2), "_cum_sum_by", <<>>)
ts_cum_sum_by_as_prod(r, v) == batches_i2_o1(struct_to_numpy(<<r, v>>, 2), "_cum_prod_by", <<>>)
ts_cum_sum_by(r, v) == batches_i2_o1(struct_to_numpy(<<r, v>>, 2), "_cum_sum_by", <<>>)

ts_cum_prod_by_as_sum(r, v) == batches_i2_o1(struct_to_numpy(<<r, v>>, 2), "_cum_sum_by", <<>>)
ts_cum_prod_by(r, v) == batches_i2_o1(struct_to_numpy(<<r, v>>, 2), "_cum_prod_by", <<>>)

ts_signals_to_size_exit_first(long_entry, long_exit, short_entry, short_exit, accumulate, action) ==
    batches_i2_o1(struct_to_numpy_float(<<long_exit, long_entry, short_exit, short_entry>>, 4),
                  "_signals_to_size", <<accumulate, action>>)

ts_signals_to_size_flags_swapped(long_entry, long_exit, short_entry, short_exit, accumulate, action) ==
    batches_i2_o1(struct_to_numpy_float(<<long_entry, long_exit, short_entry, short_exit>>, 4),
                  "_signals_to_size", <<action, accumulate>>)

ts_signals_to_size(long_entry, long_exit, short_entry, short_exit, accumulate, action) ==
    batches_i2_o1(struct_to_numpy_float(<<long_entry, long_exit, short_entry, short_exit>>, 4),
                  "_signals_to_size", <<accumulate, action>>)

ts_sum_split_by_k_first(x, by, d, k) ==
    batches_i2_o2(struct_to_numpy(<<x, by>>, 2), "_sum_split_by", <<k, d>>)

\* the call is refused when the two groups of k would overlap
ts_sum_split_by_rejects_overlap(x, by, d, k) ==
    IF 2 * k > d THEN ConfigurationError
    ELSE batches_i2_o2(struct_to_numpy(<<x, by>>, 2), "_sum_split_by", <<d, k>>)

ts_sum_split_by(x, by, d, k) ==
    batches_i2_o2(struct_to_numpy(<<x, by>>, 2), "_sum_split_by", <<d, k>>)

-----------------------------------------------------------------------------
(* Bounds and input domains *)

MaxLen == 4

RECURSIVE SeqsUpTo(_, _)
SeqsUpTo(S, n) ==
    IF n = 0 THEN {<<>>}
    ELSE LET shorter == SeqsUpTo(S, n - 1)
         IN shorter \cup {Append(s, e) : s \in {q \in shorter : Len(q) = n - 1}, e \in S}

\* the docstring example of ts_cum_sum_reset
ResetExample == <<f(1), f(0), f(1), f(2), null, f(3), f(-2), f(-3)>>

ResetCells == {null, f(-2), f(-1), f(0), f(1), f(2)}

ResetInputs == SeqsUpTo(ResetCells, MaxLen) \cup {ResetExample}

MaxLenBy == 4

\* the docstring example of ts_cum_sum_by and ts_cum_prod_by
ByExampleR == <<f(1), f(2), f(3), f(4), f(5), f(6)>>
ByExampleV == <<null, null, f(6), null, null, f(12)>>

\* r is never missing (the documented precondition of both kernels)
ByCellsR == {f(-1), f(2), f(3)}
ByCellsV == {null, f(0), f(5)}

\* pairs of columns of one length, as <<r, v>>
ByInputs ==
    {<<[i \in 1..Len(p) |-> p[i][1]], [i \in 1..Len(p) |-> p[i][2]]>> :
        p \in SeqsUpTo(ByCellsR \X ByCellsV, MaxLenBy)}
    \cup {<<ByExampleR, ByExampleV>>}

MaxBars == 3

\* a bar is <<long_entry, long_exit, short_entry, short_exit>>
Bars == BOOLEAN \X BOOLEAN \X BOOLEAN \X BOOLEAN

NoSignal == <<FALSE, FALSE, FALSE, FALSE>>
LongEntry == <<TRUE, FALSE, FALSE, FALSE>>
LongExit == <<FALSE, TRUE, FALSE, FALSE>>

\* a lone long_entry at step 1 and a lone long_exit at step 3 (steps from 0)
EntryExitExample == <<NoSignal, LongEntry, NoSignal, LongExit>>

SignalInputs == SeqsUpTo(Bars, MaxBars) \cup {EntryExitExample}

\* column k of a sequence of bars
Column(bars, k) == [i \in 1..Len(bars) |-> bars[i][k]]

MaxLenSplit == 4
MaxD == 3
MaxK == 2

\* the docstring example of ts_sum_split_by, called with d = 8 and k = 3
SplitExampleX == [i \in 1..10 |-> f(10 * i)]
SplitExampleBy == [i \in 1..10 |-> f(11 - i)]
SplitExampleD == 8
SplitExampleK == 3

SplitCellsX == {f(1), f(3)}
SplitCellsBy == {f(1), f(2), f(3)}

\* columns of different lengths
MismatchedSplit ==
    {xy \in SeqsUpTo({f(1)}, MaxLenSplit) \X SeqsUpTo({f(1)}, MaxLenSplit) :
        Len(xy[1]) # Len(xy[2])}

\* calls as <<x, by, d, k>>
SplitInputs ==
    {<<[i \in 1..Len(p) |-> p[i][1]], [i \in 1..Len(p) |-> p[i][2]], d, k>> :
        p \in SeqsUpTo(SplitCellsX \X SplitCellsBy, MaxLenSplit),
        d \in 0..MaxD, k \in 1..MaxK}
    \cup {<<SplitExampleX, SplitExampleBy, SplitExampleD, SplitExampleK>>}
    \cup {<<xy[1], xy[2], d, k>> : xy \in MismatchedSplit, d \in 1..MaxD, k \in 1..MaxK}

MaxLenW == 3
MaxDW == 3
MaxOrder == 2
MaxLenW2 == 2

\* the docstring example of ts_arg_max: [6, 2, 8, 5, 9, 4][::-1] with d = 6
ArgExample == <<f(4), f(9), f(5), f(8), f(2), f(6)>>
ArgExampleD == 6

RollCells == {null, f(0), f(1), f(2)}

\* window sizes, 0 among them, and min_samples from None and 0 to above d
WindowSizes == 0..MaxDW
MinSamples == {None} \cup {Some(n) : n \in 0..(MaxDW + 1)}

\* the values polars_ta.MIN_SAMPLES is assigned
GlobalDefaults == {None, Some(2)}

\* calls as <<x, d>>
RollInputs ==
    (SeqsUpTo(RollCells, MaxLenW) \X WindowSizes) \cup {<<ArgExample, ArgExampleD>>}

PairCells == {null, f(1), f(2)}
ThirdCells == {f(1), f(2)}

\* columns of different lengths
Mismatched ==
    {xy \in SeqsUpTo({f(1)}, MaxLenW2) \X SeqsUpTo({f(1)}, MaxLenW2) : Len(xy[1]) # Len(xy[2])}

\* calls as <<x, y>>
PairInputs ==
    {<<[i \in 1..Len(p) |-> p[i][1]], [i \in 1..Len(p) |-> p[i][2]]>> :
        p \in SeqsUpTo(PairCells \X PairCells, MaxLenW2)}
    \cup Mismatched

\* three columns on which every pairwise correlation is defined and below 1
TripleExample == <<<<f(1), f(2), f(1)>>, <<f(1), f(1), f(2)>>, <<f(1), f(2), f(2)>>>>

\* calls as <<x, y, z>>
TripleInputs ==
    {<<[i \in 1..Len(p) |-> p[i][1]], [i \in 1..Len(p) |-> p[i][2]],
       [i \in 1..Len(p) |-> p[i][3]]>> :
        p \in SeqsUpTo(PairCells \X ThirdCells \X ThirdCells, MaxLenW2)}
    \cup {<<xy[1], xy[2], xy[1]>> : xy \in Mismatched}
    \cup {TripleExample}

MaxLenS == 4
MaxDS == 3

ScaleCells == {null, f(1), f(2), f(3)}

\* calls as <<x, d, min_samples>>; the engine takes no min_samples above d
ScaleInputs ==
    {a \in SeqsUpTo(ScaleCells, MaxLenS) \X (1..MaxDS)
            \X ({None} \cup {Some(n) : n \in 0..MaxDS}) :
        a[3] = None \/ a[3][1] <= a[2]}

MaxLenB == 2
MaxLenB2 == 1
MaxConds == 2
MaxRepeat == 2

BoolCells == {null, True, False}

\* the columns of the docstring examples of ts_shifts_v1 and ts_shifts_v2
DocA == <<null, False, False, True, True, True>>
DocB == <<null, False, True, True, True, True>>
DocC == <<null, True, True, True, True, True>>

\* n boolean columns of one frame, all of the same length up to len
BoolFrames(n, len) == UNION {[1..n -> [1..l -> BoolCells]] : l \in 0..len}

\* n columns of the docstring frame in any order, repeats allowed
DocFrames(n) == [1..n -> {DocA, DocB, DocC}]

\* calls as the tuple of conditions
ShiftsV1Inputs ==
    UNION {BoolFrames(n, MaxLenB) \cup DocFrames(n) : n \in 1..MaxConds}
    \cup {<<DocA, DocB, DocC>>, <<DocA, DocB, DocB>>}

RECURSIVE sum_counts(_)
sum_counts(cn) == IF cn = <<>> THEN 0 ELSE Head(cn) + sum_counts(Tail(cn))

\* the arguments <<c1, n1, c2, n2, ...>> of conditions fr with counts cn
pairs_of(fr, cn) ==
    [j \in 1..(2 * Len(fr)) |-> IF j % 2 = 1 THEN fr[(j + 1) \div 2] ELSE cn[j \div 2]]

\* the repeat counts of n conditions; at least one condition is left after
\* the repetition
RepeatCounts(n) == {cn \in [1..n -> 0..MaxRepeat] : sum_counts(cn) >= 1}

\* the conditions of a ts_shifts_v2 call
ShiftsV2Frames == UNION {BoolFrames(n, MaxLenB2) \cup DocFrames(n) : n \in 1..MaxConds}

ShiftsV2Example == pairs_of(<<DocA, DocB>>, <<1, 2>>)

MaxConds3 == 1

\* the arguments <<c1, s1, e1, c2, s2, e2, ...>> of conditions fr with the
\* closed ranges rg of repeat counts
triples_of(fr, rg) ==
    [j \in 1..(3 * Len(fr)) |->
        IF j % 3 = 1 THEN fr[(j + 2) \div 3]
        ELSE IF j % 3 = 2 THEN rg[(j + 1) \div 3][1]
        ELSE rg[j \div 3][2]]

\* the docstring call ts_shifts_v3(a, 1, 3, b, 2, 2)
ShiftsV3ExampleRanges == <<<<1, 3>>, <<2, 2>>>>
ShiftsV3Example == triples_of(<<DocA, DocB>>, ShiftsV3ExampleRanges)

\* closed ranges start <= end for the conditions fr, the starts not all 0 so
\* that every choice of counts leaves a condition
RepeatRanges(fr) ==
    {rg \in [1..Len(fr) -> {se \in (0..MaxRepeat) \X (0..MaxRepeat) : se[1] <= se[2]}] :
        sum_counts([k \in 1..Len(fr) |-> rg[k][1]]) >= 1}
    \cup (IF fr = <<DocA, DocB>> THEN {ShiftsV3ExampleRanges} ELSE {})

\* the conditions of a ts_shifts_v3 call
ShiftsV3Frames ==
    UNION {BoolFrames(n, MaxLenB2) \cup DocFrames(n) : n \in 1..MaxConds3}
    \cup {<<DocA, DocB>>}

MaxLenT == 2

\* the invocations that may run at the same time
Threads == {"a", "b"}

\* a thread that has made no call
NotInvoked == [pc |-> "idle", call |-> [fn |-> "none"], i |-> 0, acc |-> 0, out |-> <<>>,
               before |-> FALSE]

ThreadCells == {f(1), f(-1)}
ThreadBars == {LongEntry, LongExit}

\* the calls a thread makes
ThreadCalls ==
    {[fn |-> "ts_cum_sum_reset", x |-> x] : x \in SeqsUpTo(ThreadCells, MaxLenT)}
    \cup {[fn |-> "ts_signals_to_size",
           long_entry |-> Column(bars, 1), long_exit |-> Column(bars, 2),
           short_entry |-> Column(bars, 3), short_exit |-> Column(bars, 4),
           accumulate |-> TRUE, action |-> action] :
            bars \in SeqsUpTo(ThreadBars, MaxLenT), action \in BOOLEAN}

MaxLenCs == 3
MaxKCs == 2

CsCells == {null, f(1), f(2), f(3)}

\* the docstring example of cs_top_bottom, called with k = 2
CsExample == <<null, f(1), f(2), f(2), f(2), f(3), f(5), f(5), f(5), f(10)>>
CsExampleK == 2

\* calls as <<x, k>>, k from below 1 upwards
CsInputs ==
    (SeqsUpTo(CsCells, MaxLenCs) \X (-1..MaxKCs)) \cup {<<CsExample, CsExampleK>>}

MaxLenL == 2
MaxDL == 2

LazyCells == {null, f(1), f(2)}

\* the values polars_ta.MIN_SAMPLES is assigned before an expression is
\* evaluated, 0 among them
LazyDefaults == {None} \cup {Some(n) : n \in 0..MaxDL}

\* the windowed wrappers, each on the columns it takes
LazyWrappers ==
    {"ts_arg_max", "ts_arg_min", "ts_moment", "ts_product", "ts_co_skewness",
     "ts_co_kurtosis", "ts_partial_corr", "ts_triple_corr"}

-----------------------------------------------------------------------------
(* The state machine: one call per behaviour *)

\* no call made yet; polars_ta.MIN_SAMPLES is None until it is assigned
InitCall ==
    /\ pc = "idle"
    /\ call = [fn |-> "none"]
    /\ ret = <<>>
    /\ frame = <<>>
    /\ MIN_SAMPLES = None
    /\ threads = [t \in Threads |-> NotInvoked]

Init ==
    /\ InitCall
    /\ both_entries \in TieRules
    /\ partial_windows \in BOOLEAN

\* the sequential kernels have no window rule: one choice stands for both
InitSequential ==
    /\ InitCall
    /\ both_entries \in TieRules
    /\ partial_windows = TRUE

\* the call returns the column o.out, or raises and returns nothing
Returns(o) ==
    /\ pc' = IF o.raised THEN "raised" ELSE "done"
    /\ ret' = o.out

Call_ts_cum_sum_reset ==
    /\ pc = "idle"
    /\ \E x \in ResetInputs :
        /\ call' = [fn |-> "ts_cum_sum_reset", x |-> x]
        /\ frame' = <<x>>
        /\ Returns(ts_cum_sum_reset(x))
    /\ UNCHANGED <<MIN_SAMPLES, both_entries, partial_windows, threads>>

NextReset == Call_ts_cum_sum_reset

Call_ts_cum_sum_by ==
    /\ pc = "idle"
    /\ \E rv \in ByInputs :
        /\ call' = [fn |-> "ts_cum_sum_by", r |-> rv[1], v |-> rv[2]]
        /\ frame' = <<rv[1], rv[2]>>
        /\ Returns(ts_cum_sum_by(rv[1], rv[2]))
    /\ UNCHANGED <<MIN_SAMPLES, both_entries, partial_windows, threads>>

Call_ts_cum_prod_by ==
    /\ pc = "idle"
    /\ \E rv \in ByInputs :
        /\ call' = [fn |-> "ts_cum_prod_by", r |-> rv[1], v |-> rv[2]]
        /\ frame' = <<rv[1], rv[2]>>
        /\ Returns(ts_cum_prod_by(rv[1], rv[2]))
    /\ UNCHANGED <<MIN_SAMPLES, both_entries, partial_windows, threads>>

NextBy == Call_ts_cum_sum_by \/ Call_ts_cum_prod_by

SpecReset == InitSequential /\ [][NextReset]_vars

SpecBy == InitSequential /\ [][NextBy]_vars

Call_ts_signals_to_size ==
    /\ pc = "idle"
    /\ \E bars \in SignalInputs, accumulate \in BOOLEAN, action \in BOOLEAN :
        /\ call' = [fn |-> "ts_signals_to_size",
                    long_entry |-> Column(bars, 1), long_exit |-> Column(bars, 2),
                    short_entry |-> Column(bars, 3), short_exit |-> Column(bars, 4),
                    accumulate |-> accumulate, action |-> action]
        /\ frame' = <<Column(bars, 1), Column(bars, 2), Column(bars, 3), Column(bars, 4)>>
        /\ Returns(ts_signals_to_size(Column(bars, 1), Column(bars, 2), Column(bars, 3),
                                     Column(bars, 4), accumulate, action))
    /\ UNCHANGED <<MIN_SAMPLES, both_entries, partial_windows, threads>>

NextSignals == Call_ts_signals_to_size

SpecSignals == InitSequential /\ [][NextSignals]_vars

Call_ts_sum_split_by ==
    /\ pc = "idle"
    /\ \E a \in SplitInputs :
        /\ call' = [fn |-> "ts_sum_split_by", x |-> a[1], by |-> a[2], d |-> a[3], k |-> a[4]]
        /\ frame' = <<a[1], a[2]>>
        /\ Returns(ts_sum_split_by(a[1], a[2], a[3], a[4]))
    /\ UNCHANGED <<MIN_SAMPLES, both_entries, partial_windows, threads>>

NextSplit == Call_ts_sum_split_by

SpecSplit == InitSequential /\ [][NextSplit]_vars

\* either window rule, under one tie rule
InitRoll ==
    /\ InitCall
    /\ both_entries = "none"
    /\ partial_windows \in BOOLEAN

\* polars_ta.MIN_SAMPLES = v, before the call
Set_MIN_SAMPLES ==
    /\ pc = "idle"
    /\ \E v \in GlobalDefaults \ {MIN_SAMPLES} : MIN_SAMPLES' = v
    /\ UNCHANGED <<pc, call, ret, frame, both_entries, partial_windows, threads>>

Call_ts_arg_max ==
    /\ pc = "idle"
    /\ \E a \in RollInputs, reverse \in BOOLEAN, min_samples \in MinSamples :
        /\ call' = [fn |-> "ts_arg_max", x |-> a[1], d |-> a[2], reverse |-> reverse,
                    min_samples |-> min_samples]
        /\ frame' = <<a[1]>>
        /\ Returns(ts_arg_max(a[1], a[2], reverse, min_samples))
    /\ UNCHANGED <<MIN_SAMPLES, both_entries, partial_windows, threads>>

Call_ts_arg_min ==
    /\ pc = "idle"
    /\ \E a \in RollInputs, reverse \in BOOLEAN, min_samples \in MinSamples :
        /\ call' = [fn |-> "ts_arg_min", x |-> a[1], d |-> a[2], reverse |-> reverse,
                    min_samples |-> min_samples]
        /\ frame' = <<a[1]>>
        /\ Returns(ts_arg_min(a[1], a[2], reverse, min_samples))
    /\ UNCHANGED <<MIN_SAMPLES, both_entries, partial_windows, threads>>

Call_ts_moment ==
    /\ pc = "idle"
    /\ \E a \in RollInputs, k \in 0..MaxOrder, min_samples \in MinSamples :
        /\ call' = [fn |-> "ts_moment", x |-> a[1], d |-> a[2], k |-> k,
                    min_samples |-> min_samples]
        /\ frame' = <<a[1]>>
        /\ Returns(ts_moment(a[1], a[2], k, min_samples))
    /\ UNCHANGED <<MIN_SAMPLES, both_entries, partial_windows, threads>>

Call_ts_product ==
    /\ pc = "idle"
    /\ \E a \in RollInputs, min_samples \in MinSamples :
        /\ call' = [fn |-> "ts_product", x |-> a[1], d |-> a[2], min_samples |-> min_samples]
        /\ frame' = <<a[1]>>
        /\ Returns(ts_product(a[1], a[2], min_samples))
    /\ UNCHANGED <<MIN_SAMPLES, both_entries, partial_windows, threads>>

Call_ts_co_skewness ==
    /\ pc = "idle"
    /\ \E a \in PairInputs, d \in WindowSizes, min_samples \in MinSamples :
        /\ call' = [fn |-> "ts_co_skewness", x |-> a[1], y |-> a[2], d |-> d,
                    min_samples |-> min_samples]
        /\ frame' = <<a[1], a[2]>>
        /\ Returns(ts_co_skewness(a[1], a[2], d, 0, min_samples))
    /\ UNCHANGED <<MIN_SAMPLES, both_entries, partial_windows, threads>>

Call_ts_co_kurtosis ==
    /\ pc = "idle"
    /\ \E a \in PairInputs, d \in WindowSizes, min_samples \in MinSamples :
        /\ call' = [fn |-> "ts_co_kurtosis", x |-> a[1], y |-> a[2], d |-> d,
                    min_samples |-> min_samples]
        /\ frame' = <<a[1], a[2]>>
        /\ Returns(ts_co_kurtosis(a[1], a[2], d, 0, min_samples))
    /\ UNCHANGED <<MIN_SAMPLES, both_entries, partial_windows, threads>>

Call_ts_partial_corr ==
    /\ pc = "idle"
    /\ \E a \in TripleInputs, d \in WindowSizes, min_samples \in MinSamples :
        /\ call' = [fn |-> "ts_partial_corr", x |-> a[1], y |-> a[2], z |-> a[3], d |-> d,
                    min_samples |-> min_samples]
        /\ frame' = <<a[1], a[2], a[3]>>
        /\ Returns(ts_partial_corr(a[1], a[2], a[3], d, min_samples))
    /\ UNCHANGED <<MIN_SAMPLES, both_entries, partial_windows, threads>>

Call_ts_triple_corr ==
    /\ pc = "idle"
    /\ \E a \in TripleInputs, d \in WindowSizes, min_samples \in MinSamples :
        /\ call' = [fn |-> "ts_triple_corr", x |-> a[1], y |-> a[2], z |-> a[3], d |-> d,
                    min_samples |-> min_samples]
        /\ frame' = <<a[1], a[2], a[3]>>
        /\ Returns(ts_triple_corr(a[1], a[2], a[3], d, min_samples))
    /\ UNCHANGED <<MIN_SAMPLES, both_entries, partial_windows, threads>>

NextRoll ==
    \/ Set_MIN_SAMPLES
    \/ Call_ts_arg_max \/ Call_ts_arg_min \/ Call_ts_moment \/ Call_ts_product
    \/ Call_ts_co_skewness \/ Call_ts_co_kurtosis
    \/ Call_ts_partial_corr \/ Call_ts_triple_corr

SpecRoll == InitRoll /\ [][NextRoll]_vars

\* every wrapper that hands the bridge a window size
SpecBridge == InitRoll /\ [][NextRoll \/ NextSplit]_vars

\* A second call on the column a first call returned: the output of
\* ts_cum_sum_by / ts_cum_prod_by, nulls included, goes into a sequential
\* kernel, and the output of ts_product into a window statistic.
FirstCallOf(fns) == pc = "done" /\ call.fn \in fns /\ "upstream" \notin DOMAIN call

\* the cum-by calls on columns within the length bound
CumBy == {fn \in {"ts_cum_sum_by", "ts_cum_prod_by"} : Len(ret) <= MaxLenBy}

\* the ts_product calls on columns within the length bound
Product == {fn \in {"ts_product"} : Len(ret) <= MaxLenW}

Then_ts_cum_sum_reset ==
    /\ FirstCallOf(CumBy)
    /\ call' = [fn |-> "ts_cum_sum_reset", x |-> ret, upstream |-> call.fn]
    /\ frame' = <<ret>>
    /\ Returns(ts_cum_sum_reset(ret))
    /\ UNCHANGED <<MIN_SAMPLES, both_entries, partial_windows, threads>>

\* the upstream output as the increments r, or as the overrides v
Then_ts_cum_sum_by ==
    /\ FirstCallOf(CumBy)
    /\ \E rv \in {<<ret, call.v>>, <<call.r, ret>>} :
        /\ call' = [fn |-> "ts_cum_sum_by", r |-> rv[1], v |-> rv[2], upstream |-> call.fn]
        /\ frame' = <<rv[1], rv[2]>>
        /\ Returns(ts_cum_sum_by(rv[1], rv[2]))
    /\ UNCHANGED <<MIN_SAMPLES, both_entries, partial_windows, threads>>

Then_ts_cum_prod_by ==
    /\ FirstCallOf(CumBy)
    /\ \E rv \in {<<ret, call.v>>, <<call.r, ret>>} :
        /\ call' = [fn |-> "ts_cum_prod_by", r |-> rv[1], v |-> rv[2], upstream |-> call.fn]
        /\ frame' = <<rv[1], rv[2]>>
        /\ Returns(ts_cum_prod_by(rv[1], rv[2]))
    /\ UNCHANGED <<MIN_SAMPLES, both_entries, partial_windows, threads>>

Then_ts_sum_split_by ==
    /\ FirstCallOf(CumBy \cap {"ts_cum_sum_by"})
    /\ \E d \in {MaxD}, k \in 1..MaxK :
        /\ call' = [fn |-> "ts_sum_split_by", x |-> ret, by |-> call.r, d |-> d, k |-> k,
                    upstream |-> call.fn]
        /\ frame' = <<ret, call.r>>
        /\ Returns(ts_sum_split_by(ret, call.r, d, k))
    /\ UNCHANGED <<MIN_SAMPLES, both_entries, partial_windows, threads>>

Then_ts_arg_max ==
    /\ FirstCallOf(Product)
    /\ \E reverse \in BOOLEAN :
        /\ call' = [fn |-> "ts_arg_max", x |-> ret, d |-> call.d, reverse |-> reverse,
                    min_samples |-> call.min_samples, upstream |-> call.fn]
        /\ frame' = <<ret>>
        /\ Returns(ts_arg_max(ret, call.d, reverse, call.min_samples))
    /\ UNCHANGED <<MIN_SAMPLES, both_entries, partial_windows, threads>>

Then_ts_arg_min ==
    /\ FirstCallOf(Product)
    /\ \E reverse \in BOOLEAN :
        /\ call' = [fn |-> "ts_arg_min", x |-> ret, d |-> call.d, reverse |-> reverse,
                    min_samples |-> call.min_samples, upstream |-> call.fn]
        /\ frame' = <<ret>>
        /\ Returns(ts_arg_min(ret, call.d, reverse, call.min_samples))
    /\ UNCHANGED <<MIN_SAMPLES, both_entries, partial_windows, threads>>

Then_ts_moment ==
    /\ FirstCallOf(Product)
    /\ \E k \in 0..MaxOrder :
        /\ call' = [fn |-> "ts_moment", x |-> ret, d |-> call.d, k |-> k,
                    min_samples |-> call.min_samples, upstream |-> call.fn]
        /\ frame' = <<ret>>
        /\ Returns(ts_moment(ret, call.d, k, call.min_samples))
    /\ UNCHANGED <<MIN_SAMPLES, both_entries, partial_windows, threads>>

Then_ts_product ==
    /\ FirstCallOf(Product)
    /\ call' = [fn |-> "ts_product", x |-> ret, d |-> call.d,
                min_samples |-> call.min_samples, upstream |-> call.fn]
    /\ frame' = <<ret>>
    /\ Returns(ts_product(ret, call.d, call.min_samples))
    /\ UNCHANGED <<MIN_SAMPLES, both_entries, partial_windows, threads>>

NextThen ==
    \/ Then_ts_cum_sum_reset \/ Then_ts_cum_sum_by \/ Then_ts_cum_prod_by
    \/ Then_ts_sum_split_by
    \/ Then_ts_arg_max \/ Then_ts_arg_min \/ Then_ts_moment \/ Then_ts_product

\* the window rule under which a window emits soonest
InitChain ==
    /\ InitCall
    /\ both_entries = "none"
    /\ partial_windows = TRUE

\* the sequential and the windowed kernels, alone and one after another
SpecChain == InitChain /\ [][NextReset \/ NextBy \/ NextRoll \/ NextThen]_vars

\* the cum-by wrappers alone: the tie rule is read by _signals_to_size only
SpecSeed == InitChain /\ [][NextBy]_vars

Call_ts_scale ==
    /\ pc = "idle"
    /\ \E a \in ScaleInputs :
        /\ or_(a[3], MIN_SAMPLES) # None => or_(a[3], MIN_SAMPLES)[1] <= a[2]
        /\ call' = [fn |-> "ts_scale", x |-> a[1], d |-> a[2], min_samples |-> a[3]]
        /\ frame' = <<a[1]>>
        /\ Returns(returned(ts_scale(a[1], a[2], a[3])))
    /\ UNCHANGED <<MIN_SAMPLES, both_entries, partial_windows, threads>>

NextScale == Set_MIN_SAMPLES \/ Call_ts_scale

SpecScale == InitChain /\ [][NextScale]_vars

Call_ts_shifts_v1 ==
    /\ pc = "idle"
    /\ \E args \in ShiftsV1Inputs :
        /\ call' = [fn |-> "ts_shifts_v1", args |-> args]
        /\ frame' = args
        /\ Returns(returned(ts_shifts_v1(args)))
    /\ UNCHANGED <<MIN_SAMPLES, both_entries, partial_windows, threads>>

Call_ts_shifts_v2 ==
    /\ pc = "idle"
    /\ \E fr \in ShiftsV2Frames :
        \E cn \in RepeatCounts(Len(fr)) :
            /\ call' = [fn |-> "ts_shifts_v2", args |-> pairs_of(fr, cn)]
            /\ frame' = fr
            /\ Returns(returned(ts_shifts_v2(pairs_of(fr, cn))))
    /\ UNCHANGED <<MIN_SAMPLES, both_entries, partial_windows, threads>>

Call_ts_shifts_v3 ==
    /\ pc = "idle"
    /\ \E fr \in ShiftsV3Frames :
        \E rg \in RepeatRanges(fr) :
            /\ call' = [fn |-> "ts_shifts_v3", args |-> triples_of(fr, rg)]
            /\ frame' = fr
            /\ Returns(returned(ts_shifts_v3(triples_of(fr, rg))))
    /\ UNCHANGED <<MIN_SAMPLES, both_entries, partial_windows, threads>>

NextShifts == Call_ts_shifts_v1 \/ Call_ts_shifts_v2 \/ Call_ts_shifts_v3

SpecShifts == InitChain /\ [][NextShifts]_vars

-----------------------------------------------------------------------------
(* Invocations side by side: each thread runs its kernel's loop one row at *)
(* a time on its own arrays, its own accumulator and its own output        *)

\* the float arrays the wrapper of call c hands to its kernel
arrays_of(c) ==
    IF c.fn = "ts_signals_to_size"
    THEN struct_to_numpy_float(<<c.long_entry, c.long_exit, c.short_entry, c.short_exit>>, 4)
    ELSE <<astype_float(to_numpy(c.x))>>

\* the accumulator thread t starts from when nothing is kept from its last
\* call of fn: the kept one
initial_acc_kept(t, fn) ==
    IF threads[t].call.fn = fn THEN threads[t].acc
    ELSE IF fn = "ts_signals_to_size" THEN [state |-> Flat, size |-> 0] ELSE 0

\* the accumulator a kernel starts from: Flat with size 0, or the sum 0
initial_acc(t, fn) ==
    IF fn = "ts_signals_to_size" THEN [state |-> Flat, size |-> 0] ELSE 0

\* thread t calls a wrapper, after an earlier call of its own or not
Invoke ==
    \E t \in Threads, c \in ThreadCalls :
        /\ threads[t].pc \in {"idle", "done"}
        /\ threads' = [threads EXCEPT ![t] =
                [pc |-> "running", call |-> c, i |-> 0, acc |-> initial_acc(t, c.fn),
                 out |-> <<>>, before |-> threads[t].pc = "done"]]
        /\ UNCHANGED <<pc, call, ret, frame, MIN_SAMPLES, both_entries, partial_windows>>

\* the accumulator of th after row i of its arrays
acc_after(th, i) ==
    LET xx == arrays_of(th.call)
    IN IF th.call.fn = "ts_signals_to_size"
       THEN signals_step(th.acc, truthy(xx[1][i]), truthy(xx[2][i]),
                         truthy(xx[3][i]), truthy(xx[4][i]), th.call.accumulate)
       ELSE cum_sum_reset_step(th.acc, xx[1][i])

\* the output cell of th for a row that moves its accumulator to new
cell_after(th, new) ==
    IF th.call.fn = "ts_signals_to_size"
    THEN IF th.call.action THEN f(new.size - th.acc.size) ELSE f(new.size)
    ELSE f(new)

\* the kernel of thread t handles its next row
Step ==
    \E t \in Threads :
        /\ threads[t].pc = "running"
        /\ threads[t].i < Len(arrays_of(threads[t].call)[1])
        /\ LET th == threads[t]
               new == acc_after(th, th.i + 1)
           IN threads' = [threads EXCEPT ![t] =
                  [th EXCEPT !.i = th.i + 1, !.acc = new,
                             !.out = Append(th.out, cell_after(th, new))]]
        /\ UNCHANGED <<pc, call, ret, frame, MIN_SAMPLES, both_entries, partial_windows>>

\* the kernel of thread t has handled every row: the bridge hands the array
\* back as a column
Return ==
    \E t \in Threads :
        /\ threads[t].pc = "running"
        /\ threads[t].i = Len(arrays_of(threads[t].call)[1])
        /\ threads' = [threads EXCEPT ![t].pc = "done", ![t].out = nan_to_null(@)]
        /\ UNCHANGED <<pc, call, ret, frame, MIN_SAMPLES, both_entries, partial_windows>>

NextThreads == Invoke \/ Step \/ Return

SpecThreads == InitChain /\ [][NextThreads]_vars

Call_cs_top_bottom ==
    /\ pc = "idle"
    /\ \E a \in CsInputs :
        /\ call' = [fn |-> "cs_top_bottom", x |-> a[1], k |-> a[2]]
        /\ frame' = <<a[1]>>
        /\ Returns(returned(cs_top_bottom(a[1], a[2])))
    /\ UNCHANGED <<MIN_SAMPLES, both_entries, partial_windows, threads>>

\* the cross-sectional marking, on one cross-section per call
SpecCross == InitChain /\ [][Call_cs_top_bottom]_vars

-----------------------------------------------------------------------------
(* Expressions are evaluated after they are built: the wrapper runs when   *)
(* the expression is written, its callback when the frame is collected     *)

\* polars_ta.MIN_SAMPLES = v, before the wrapper is called or between the
\* call and the evaluation
Assign_MIN_SAMPLES ==
    /\ pc \in {"idle", "built"}
    /\ \E v \in LazyDefaults \ {MIN_SAMPLES} : MIN_SAMPLES' = v
    /\ UNCHANGED <<pc, call, ret, frame, both_entries, partial_windows, threads>>

\* a windowed wrapper is called: minp is resolved and the expression built
Build ==
    /\ pc = "idle"
    /\ \E fn \in LazyWrappers, x \in SeqsUpTo(LazyCells, MaxLenL), d \in 0..MaxDL,
          min_samples \in LazyDefaults :
        call' = [fn |-> fn, x |-> x, y |-> x, z |-> x, d |-> d, reverse |-> TRUE,
                 k |-> MaxOrder, min_samples |-> min_samples,
                 minp |-> resolve_minp(min_samples, d), default |-> MIN_SAMPLES]
    /\ pc' = "built"
    /\ UNCHANGED <<ret, frame, MIN_SAMPLES, both_entries, partial_windows, threads>>

\* the frame is collected: the callback runs with the minp it holds
Collect ==
    /\ pc = "built"
    /\ frame' = <<call.x, call.y, call.z>>
    /\ Returns(evaluate(call, captured_minp(call)))
    /\ UNCHANGED <<call, MIN_SAMPLES, both_entries, partial_windows, threads>>

NextLazy == Assign_MIN_SAMPLES \/ Build \/ Collect

SpecLazy == InitChain /\ [][NextLazy]_vars

\* every wrapper that reaches a kernel through the bridge
NextKernels == NextReset \/ NextBy \/ NextSignals \/ NextSplit \/ NextRoll

SpecKernels == InitRoll /\ [][NextKernels]_vars

Next ==
    \/ NextKernels \/ NextThen \/ NextScale \/ NextShifts \/ NextThreads
    \/ Call_cs_top_bottom \/ NextLazy

Spec == Init /\ [][Next]_vars

-----------------------------------------------------------------------------
(* Claims about ts_cum_sum_reset *)

Done(fn) == pc = "done" /\ call.fn = fn

\* the step rule of the reset cumulative sum at position i of input x
ResetStepRule(x, out, i) ==
    LET cur == x[i]
        prev == IF i = 1 THEN f(0) ELSE out[i - 1]
    IN  /\ prev.t = "num"
        /\ out[i] = IF isnull(cur) THEN f(0)
                    ELSE IF cur.v = 0 \/ sign(cur.v) * sign(prev.v) < 0 THEN cur
                    ELSE fadd(prev, cur)

ResetExampleOut == <<f(1), f(0), f(1), f(3), f(0), f(3), f(-2), f(-5)>>

\* C1: ts_cum_sum_reset: where the input is missing, zero or of the sign
\* opposite to the accumulator the output is the current value (0 for a
\* missing input), elsewhere it is the previous output plus the current
\* value; [1,0,1,2,null,3,-2,-3] gives [1,0,1,3,0,3,-2,-5].
C1_ResetRule ==
    Done("ts_cum_sum_reset") =>
        /\ Len(ret) = Len(call.x)
        /\ \A i \in 1..Len(call.x) : ResetStepRule(call.x, ret, i)
        /\ call.x = ResetExample => ret = ResetExampleOut

C1_Witness ==
    /\ Done("ts_cum_sum_reset")
    /\ call.x = ResetExample
    /\ ret[4] = f(3) /\ ret[5] = f(0) /\ ret[8] = f(-5)

-----------------------------------------------------------------------------
(* Claims about ts_cum_sum_by and ts_cum_prod_by *)

BySumExampleOut == <<null, null, f(6), f(10), f(15), f(12)>>
ByProdExampleOut == <<null, null, f(6), f(24), f(120), f(12)>>

\* C2: ts_cum_sum_by(r, v): where v is present the output is v; where v is
\* missing and a previous output exists the output is the previous output plus
\* r; r=[1,2,3,4,5,6], v=[null,null,6,null,null,12] gives
\* [null,null,6,10,15,12].
C2_CumSumByRule ==
    Done("ts_cum_sum_by") =>
        /\ Len(ret) = Len(call.r)
        /\ \A i \in 1..Len(call.r) :
            /\ ~isnull(call.v[i]) => ret[i] = call.v[i]
            /\ (isnull(call.v[i]) /\ i > 1 /\ ret[i - 1].t = "num") =>
                    ret[i] = f(ret[i - 1].v + call.r[i].v)
        /\ (call.r = ByExampleR /\ call.v = ByExampleV) => ret = BySumExampleOut

C2_Witness ==
    /\ Done("ts_cum_sum_by")
    /\ call.r = ByExampleR /\ call.v = ByExampleV
    /\ ret[3] = f(6) /\ ret[5] = f(15) /\ ret[6] = f(12)

\* C3: ts_cum_prod_by(r, v): where v is present the output is v; where v is
\* missing and a previous output exists the output is the previous output
\* times r; r=[1,2,3,4,5,6], v=[null,null,6,null,null,12] gives
\* [null,null,6,24,120,12].
C3_CumProdByRule ==
    Done("ts_cum_prod_by") =>
        /\ Len(ret) = Len(call.r)
        /\ \A i \in 1..Len(call.r) :
            /\ ~isnull(call.v[i]) => ret[i] = call.v[i]
            /\ (isnull(call.v[i]) /\ i > 1 /\ ret[i - 1].t = "num") =>
                    ret[i] = f(ret[i - 1].v * call.r[i].v)
        /\ (call.r = ByExampleR /\ call.v = ByExampleV) => ret = ByProdExampleOut

C3_Witness ==
    /\ Done("ts_cum_prod_by")
    /\ call.r = ByExampleR /\ call.v = ByExampleV
    /\ ret[3] = f(6) /\ ret[5] = f(120) /\ ret[6] = f(12)

\* the positions of v that hold a value
Present(v) == {i \in 1..Len(v) : ~isnull(v[i])}

-----------------------------------------------------------------------------
(* Claims about ts_signals_to_size *)

\* the running sum of a column of numbers
RECURSIVE RunningSum(_, _, _, _)
RunningSum(x, i, total, out) ==
    IF i > Len(x) THEN out
    ELSE RunningSum(x, i + 1, total + x[i].v, Append(out, f(total + x[i].v)))

\* the position size after each bar as the returned column shows it
Sizes == IF call.action THEN RunningSum(ret, 1, 0, <<>>) ELSE ret

\* the size before bar i, in a column sz of sizes
Before(sz, i) == IF i = 1 THEN 0 ELSE sz[i - 1].v

\* the size before bar i of a call with action=false
SizeBefore(i) == Before(ret, i)

SignalsDone == Done("ts_signals_to_size") /\ Len(ret) = Len(call.long_entry)

IsEntryExitExample ==
    /\ call.long_entry = Column(EntryExitExample, 1)
    /\ call.long_exit = Column(EntryExitExample, 2)
    /\ call.short_entry = Column(EntryExitExample, 3)
    /\ call.short_exit = Column(EntryExitExample, 4)

\* every bar of the call is a lone long_entry
OnlyLongEntries ==
    \A i \in 1..Len(ret) :
        /\ call.long_entry[i] /\ ~call.long_exit[i]
        /\ ~call.short_entry[i] /\ ~call.short_exit[i]

C5_Examples ==
    /\ IsEntryExitExample => ret = <<f(0), f(1), f(1), f(0)>>
    /\ (OnlyLongEntries /\ Len(ret) = 3) => ret = <<f(1), f(1), f(1)>>

\* C5 as stated: with accumulate=false and action=false every long_entry that
\* fires while Long (short_entry while Short) leaves the size at the unit
\* value, whatever else fires on the bar.
C5_Original ==
    (SignalsDone /\ ~call.accumulate /\ ~call.action) =>
        /\ \A i \in 1..Len(ret) :
            /\ (SizeBefore(i) > 0 /\ call.long_entry[i]) => ret[i] = f(1)
            /\ (SizeBefore(i) < 0 /\ call.short_entry[i]) => ret[i] = f(-1)
        /\ C5_Examples

\* C5 (amended): with accumulate=false and action=false a long_entry that
\* fires while Long on a bar without long_exit (a short_entry while Short on a
\* bar without short_exit) leaves the size at the unit value; a lone
\* long_entry at step 1 and a lone long_exit at step 3 give [0,1,1,0]; three
\* long entries in a row give size 1.
C5_NoAccumulate ==
    (SignalsDone /\ ~call.accumulate /\ ~call.action) =>
        /\ \A i \in 1..Len(ret) :
            /\ (SizeBefore(i) > 0 /\ call.long_entry[i] /\ ~call.long_exit[i]) =>
                    (SizeBefore(i) = 1 /\ ret[i] = f(1))
            /\ (SizeBefore(i) < 0 /\ call.short_entry[i] /\ ~call.short_exit[i]) =>
                    (SizeBefore(i) = -1 /\ ret[i] = f(-1))
        /\ C5_Examples

C5_Witness ==
    /\ SignalsDone /\ ~call.accumulate /\ ~call.action
    /\ OnlyLongEntries /\ Len(ret) = 3
    /\ ret[3] = f(1)

\* C6: with accumulate=true and action=false every long_entry that fires
\* while Long on a bar with no exit adds one unit, every short_entry while
\* Short subtracts one, and n long entries in a row give size n.
C6_Accumulate ==
    (SignalsDone /\ call.accumulate /\ ~call.action) =>
        /\ \A i \in 1..Len(ret) :
            LET noexit == ~call.long_exit[i] /\ ~call.short_exit[i]
            IN  /\ (SizeBefore(i) > 0 /\ call.long_entry[i] /\ noexit) =>
                        ret[i] = f(SizeBefore(i) + 1)
                /\ (SizeBefore(i) < 0 /\ call.short_entry[i] /\ noexit) =>
                        ret[i] = f(SizeBefore(i) - 1)
        /\ OnlyLongEntries => \A i \in 1..Len(ret) : ret[i] = f(i)

C6_Witness ==
    /\ SignalsDone /\ call.accumulate /\ ~call.action
    /\ OnlyLongEntries
    /\ Len(ret) = MaxBars /\ ret[MaxBars] = f(MaxBars)

\* C7: exits come before entries on a bar: from Long a bar with long_exit
\* ends Flat with size 0, except that with accumulate=true and long_entry on
\* the same bar the position stays open and grows by one; the same for Short
\* with short_exit and short_entry.
C7_ExitBeforeEntry ==
    SignalsDone =>
        LET sz == Sizes
        IN \A i \in 1..Len(ret) :
            /\ (Before(sz, i) > 0 /\ call.long_exit[i]) =>
                    sz[i] = IF call.accumulate /\ call.long_entry[i]
                            THEN f(Before(sz, i) + 1) ELSE f(0)
            /\ (Before(sz, i) < 0 /\ call.short_exit[i]) =>
                    sz[i] = IF call.accumulate /\ call.short_entry[i]
                            THEN f(Before(sz, i) - 1) ELSE f(0)

\* Long, then a bar with long_exit and both entries: Flat, not re-entered
C7_Witness ==
    /\ SignalsDone /\ ~call.accumulate /\ ~call.action
    /\ Len(ret) = 2
    /\ ret[1] = f(1)
    /\ call.long_exit[2] /\ call.long_entry[2] /\ call.short_entry[2]
    /\ ret[2] = f(0)

\* the position records of the call's bars
Positions ==
    signals_positions(bool_to_float(call.long_entry), bool_to_float(call.long_exit),
                      bool_to_float(call.short_entry), bool_to_float(call.short_exit),
                      call.accumulate)

StateBefore(ps, i) == IF i = 1 THEN Flat ELSE ps[i - 1].state

\* C8: with action=false, from Flat a bar with only long_entry moves to Long
\* and a bar with only short_entry to Short, and the size is positive exactly
\* in Long, negative exactly in Short and zero exactly in Flat.
C8_StateAndSign ==
    (SignalsDone /\ ~call.action) =>
        LET ps == Positions
        IN \A i \in 1..Len(ret) :
            LET le == call.long_entry[i]
                lx == call.long_exit[i]
                se == call.short_entry[i]
                sx == call.short_exit[i]
            IN  /\ (StateBefore(ps, i) = Flat /\ le /\ ~lx /\ ~se /\ ~sx) =>
                        ps[i].state = Long
                /\ (StateBefore(ps, i) = Flat /\ se /\ ~le /\ ~lx /\ ~sx) =>
                        ps[i].state = Short
                /\ ret[i].t = "num"
                /\ (ret[i].v > 0) <=> (ps[i].state = Long)
                /\ (ret[i].v < 0) <=> (ps[i].state = Short)
                /\ (ret[i].v = 0) <=> (ps[i].state = Flat)

C8_Witness ==
    /\ SignalsDone /\ ~call.action
    /\ Len(ret) = 3
    /\ Positions[1].state = Short /\ ret[1] = f(-1)
    /\ Positions[2].state = Flat /\ ret[2] = f(0)
    /\ Positions[3].state = Long /\ ret[3] = f(1)

\* the same call with action=false
SizeOutput ==
    ts_signals_to_size(call.long_entry, call.long_exit, call.short_entry,
                       call.short_exit, call.accumulate, FALSE).out

\* C9: the action=true output at step t is the action=false output at t minus
\* the action=false output at t-1 (0 before the first step).
C9_ActionIsDifference ==
    (SignalsDone /\ call.action) =>
        LET sz == SizeOutput
        IN  /\ Len(sz) = Len(ret)
            /\ \A t \in 1..Len(ret) : ret[t] = f(sz[t].v - Before(sz, t))
            /\ RunningSum(ret, 1, 0, <<>>) = sz

\* accumulate to 2, then exit: the actions are +1, +1, -2
C9_Witness ==
    /\ SignalsDone /\ call.action /\ call.accumulate
    /\ ret = <<f(1), f(1), f(-2)>>
    /\ SizeOutput = <<f(1), f(2), f(0)>>

-----------------------------------------------------------------------------
(* Claims about ts_sum_split_by *)

MissingPair == <<null, null>>

IsSplitExample ==
    /\ call.x = SplitExampleX /\ call.by = SplitExampleBy
    /\ call.d = SplitExampleD /\ call.k = SplitExampleK

\* C10: ts_sum_split_by(x, by, d, k): every output at a position i < d-1
\* (from 0) is the missing pair, and x=[10,...,100], by=[10,...,1], d=8, k=3
\* gives 7 missing pairs and then (210,60), (240,90), (270,120).
C10_SplitWarmupAndExample ==
    Done("ts_sum_split_by") =>
        /\ Len(ret) = Len(call.x)
        /\ \A i \in 1..Len(ret) : i < call.d => ret[i] = MissingPair
        /\ IsSplitExample =>
                /\ \A i \in 1..7 : ret[i] = MissingPair
                /\ ret[8] = <<f(210), f(60)>>
                /\ ret[9] = <<f(240), f(90)>>
                /\ ret[10] = <<f(270), f(120)>>

C10_Witness ==
    /\ Done("ts_sum_split_by")
    /\ IsSplitExample
    /\ ret[7] = MissingPair
    /\ ret[8] = <<f(210), f(60)>>

RECURSIVE SumOver(_, _)
\* the sum of x over the set S of positions
SumOver(x, S) ==
    IF S = {} THEN 0
    ELSE LET p == CHOOSE q \in S : TRUE IN x[p].v + SumOver(x, S \ {p})

\* S holds k positions of the window W whose values of by are the highest
HighestK(by, W, k, S) ==
    /\ S \subseteq W /\ Cardinality(S) = k
    /\ \A p \in S, q \in W \ S : by[p].v >= by[q].v

\* S holds k positions of the window W whose values of by are the lowest
LowestK(by, W, k, S) ==
    /\ S \subseteq W /\ Cardinality(S) = k
    /\ \A p \in S, q \in W \ S : by[p].v <= by[q].v

SplitWindow(i) == (i - call.d + 1)..i

\* C11: ts_sum_split_by(x, by, d, k): for every fully populated window the
\* first component of the output pair is the sum of x at the k positions
\* holding the highest values of by in the window and the second component
\* is the sum of x at the k positions holding the lowest values of by.
C11_TopKFirst ==
    (Done("ts_sum_split_by") /\ call.k <= call.d) =>
        \A i \in call.d..Len(ret) :
            /\ \E S \in SUBSET SplitWindow(i) :
                    /\ HighestK(call.by, SplitWindow(i), call.k, S)
                    /\ ret[i][1] = f(SumOver(call.x, S))
            /\ \E S \in SUBSET SplitWindow(i) :
                    /\ LowestK(call.by, SplitWindow(i), call.k, S)
                    /\ ret[i][2] = f(SumOver(call.x, S))

\* what the call returns: the first component is the sum at the k lowest
\* values of by, the second the sum at the k highest
C11_LowestKFirst ==
    (Done("ts_sum_split_by") /\ call.k <= call.d) =>
        \A i \in call.d..Len(ret) :
            /\ \E S \in SUBSET SplitWindow(i) :
                    /\ LowestK(call.by, SplitWindow(i), call.k, S)
                    /\ ret[i][1] = f(SumOver(call.x, S))
            /\ \E S \in SUBSET SplitWindow(i) :
                    /\ HighestK(call.by, SplitWindow(i), call.k, S)
                    /\ ret[i][2] = f(SumOver(call.x, S))


-----------------------------------------------------------------------------
(* Claims about the window statistics *)

ArgCall == Done("ts_arg_max") \/ Done("ts_arg_min")

\* the rows of the window ending at i where the column x holds a number
Held(x, i, d) == {p \in (i - d + 1)..i : p >= 1 /\ x[p].t = "num"}

\* position p holds the extreme of x over the rows V: the highest value for
\* ts_arg_max, the lowest for ts_arg_min
Extreme(x, V, p) ==
    /\ p \in V
    /\ \A q \in V : IF call.fn = "ts_arg_max" THEN x[q].v <= x[p].v ELSE x[q].v >= x[p].v

ArgExampleOut == <<null, null, null, null, null, f(4)>>

IsArgExample ==
    /\ call.fn = "ts_arg_max" /\ call.x = ArgExample /\ call.d = ArgExampleD
    /\ call.reverse /\ call.min_samples = None /\ MIN_SAMPLES = None

\* C12: ts_arg_max / ts_arg_min with reverse=true: a defined output at i is
\* the distance from i back to a position of the window holding the maximum
\* (minimum): 0 when the current value is the extreme, 1 when the previous
\* value is and the current one is not, always within [0, d-1]; the column
\* [4,9,5,8,2,6] with d=6 gives 4 at the last position and nothing before.
C12_ArgDistance ==
    (ArgCall /\ call.reverse) =>
        /\ \A i \in 1..Len(ret) : ~isnull(ret[i]) =>
            LET V == Held(call.x, i, call.d)
            IN  /\ ret[i].v \in 0..(call.d - 1)
                /\ Extreme(call.x, V, i - ret[i].v)
                /\ Extreme(call.x, V, i) => ret[i] = f(0)
                /\ (Extreme(call.x, V, i - 1) /\ ~Extreme(call.x, V, i)) => ret[i] = f(1)
        /\ IsArgExample => ret = ArgExampleOut

C12_Witness ==
    /\ Done("ts_arg_max") /\ IsArgExample
    /\ ret[5] = null /\ ret[6] = f(4)

\* C13: ts_arg_max / ts_arg_min tie-break: when several positions of the
\* window hold the extreme, the reported position is the most recent of
\* them (the smallest distance); a window of constant values gives 0 with
\* reverse=true.
C13_MostRecentTie ==
    ArgCall =>
        \A i \in 1..Len(ret) : ~isnull(ret[i]) =>
            LET V == Held(call.x, i, call.d)
                p == IF call.reverse THEN i - ret[i].v
                     ELSE ret[i].v + (IF i - call.d + 1 >= 1 THEN i - call.d + 1 ELSE 1)
            IN  /\ Extreme(call.x, V, p)
                /\ \A q \in V : Extreme(call.x, V, q) => q <= p
                /\ (call.reverse /\ \A q \in V : call.x[q] = call.x[i]) => ret[i] = f(0)

\* the maximum 2 sits at distances 2 and 1: the call reports 1
C13_Witness ==
    /\ Done("ts_arg_max") /\ call.reverse
    /\ call.x = <<f(2), f(2), f(1)>> /\ call.d = 3
    /\ ret[3] = f(1)

WindowedWrappers ==
    {"ts_arg_max", "ts_arg_min", "ts_moment", "ts_product", "ts_co_skewness",
     "ts_co_kurtosis", "ts_partial_corr", "ts_triple_corr"}

\* minp of the call: min_samples if given and not 0, else the package
\* default if set and not 0, else d
Minp ==
    IF call.min_samples # None /\ call.min_samples[1] # 0 THEN call.min_samples[1]
    ELSE IF MIN_SAMPLES # None /\ MIN_SAMPLES[1] # 0 THEN MIN_SAMPLES[1]
    ELSE call.d

\* the rows of the window ending at i where every input column holds a number
HeldRows(i) ==
    {p \in (i - call.d + 1)..i :
        p >= 1 /\ \A j \in 1..Len(frame) : frame[j][p].t = "num"}

\* C14: every windowed kernel: the output at every position i < minp - 1
\* (from 0) is missing, whatever d is, and the output is missing wherever
\* the window [i-d+1, i] holds fewer than minp non-missing values.
C14_MissingBelowMinp ==
    (pc = "done" /\ call.fn \in WindowedWrappers) =>
        \A i \in 1..Len(ret) :
            /\ i - 1 < Minp - 1 => isnull(ret[i])
            /\ Cardinality(HeldRows(i)) < Minp => isnull(ret[i])

\* d = 3 on two rows: nothing; d = 2, min_samples = 2 over [1, 2, null]:
\* the second window holds two values, the third only one
C14_Witness ==
    /\ Done("ts_product")
    /\ call.x = <<f(1), f(2), null>> /\ call.d = 2 /\ call.min_samples = Some(2)
    /\ ret = <<null, f(2), null>>

DifferentLengths == \E j \in 1..Len(frame) : Len(frame[j]) # Len(frame[1])

\* C15: a call through the bridge raises a configuration error and returns
\* no array whenever d < 1, minp is outside [1, d] (an explicit min_samples
\* above d included), or the input arrays differ in length.
C15_Rejects ==
    /\ (pc # "idle" /\ call.fn \in WindowedWrappers
            /\ (call.d < 1 \/ Minp < 1 \/ Minp > call.d \/ DifferentLengths))
        => (pc = "raised" /\ ret = <<>>)
    /\ (pc # "idle" /\ call.fn = "ts_sum_split_by" /\ (call.d < 1 \/ DifferentLengths))
        => (pc = "raised" /\ ret = <<>>)

C15_Witness ==
    /\ pc = "raised" /\ call.fn = "ts_arg_max"
    /\ call.d = 2 /\ call.min_samples = Some(3) /\ Len(call.x) = 3
    /\ ret = <<>>

-----------------------------------------------------------------------------
(* Claims about every kernel *)

\* the columns the call was given
InputsOf ==
    CASE call.fn \in {"ts_cum_sum_reset", "ts_arg_max", "ts_arg_min", "ts_moment",
                      "ts_product"} -> <<call.x>>
      [] call.fn \in {"ts_cum_sum_by", "ts_cum_prod_by"} -> <<call.r, call.v>>
      [] call.fn = "ts_signals_to_size" ->
            <<call.long_entry, call.long_exit, call.short_entry, call.short_exit>>
      [] call.fn = "ts_sum_split_by" -> <<call.x, call.by>>
      [] call.fn \in {"ts_co_skewness", "ts_co_kurtosis"} -> <<call.x, call.y>>
      [] call.fn \in {"ts_partial_corr", "ts_triple_corr"} -> <<call.x, call.y, call.z>>

-----------------------------------------------------------------------------
(* Claims about missing values *)

SequentialWrappers ==
    {"ts_cum_sum_reset", "ts_cum_sum_by", "ts_cum_prod_by", "ts_sum_split_by"}

\* a call of a sequential or windowed kernel, some input cell of it missing
MissingFed ==
    /\ pc # "idle"
    /\ call.fn \in SequentialWrappers \cup WindowedWrappers
    /\ \E j \in 1..Len(frame) : \E i \in 1..Len(frame[j]) : isnull(frame[j][i])

\* the scalar parameters are ones the bridge rejects
BadParameters ==
    \/ call.fn \in WindowedWrappers /\ (call.d < 1 \/ Minp < 1 \/ Minp > call.d)
    \/ call.fn = "ts_sum_split_by" /\ call.d < 1

\* the running total at i is unknown: no v at or before i, or an increment
\* r missing after the last v
UnknownBy(i) ==
    LET P == {p \in 1..i : ~isnull(call.v[p])}
    IN  \/ P = {}
        \/ \E p \in 1..i : (\A q \in P : q < p) /\ isnull(call.r[p])

\* a sum of the pair at i is unknown: the window is not full, or whichever k
\* rows of lowest (highest) by are taken, an x among them is missing
UnknownSplit(i, highest) ==
    LET W == SplitWindow(i)
        k == IF call.k > call.d THEN call.d ELSE call.k
    IN  \/ i < call.d
        \/ \A S \in SUBSET W :
                (IF highest THEN HighestK(call.by, W, k, S) ELSE LowestK(call.by, W, k, S))
                    => \E p \in S : isnull(call.x[p])

\* no fault, and a missing output wherever the result of a cum-by, rank-split
\* or window kernel is unknown
PropagatesElsewhere ==
    /\ pc = "raised" => BadParameters
    /\ (pc = "done" /\ call.fn \in {"ts_cum_sum_by", "ts_cum_prod_by"}) =>
            \A i \in 1..Len(ret) : UnknownBy(i) => isnull(ret[i])
    /\ (pc = "done" /\ call.fn = "ts_sum_split_by") =>
            \A i \in 1..Len(ret) :
                /\ UnknownSplit(i, FALSE) => isnull(ret[i][1])
                /\ UnknownSplit(i, TRUE) => isnull(ret[i][2])
    /\ (pc = "done" /\ call.fn \in WindowedWrappers) =>
            \A i \in 1..Len(ret) : Cardinality(HeldRows(i)) < Minp => isnull(ret[i])

\* C17: for every kernel of the sequential and windowed families a missing
\* input, the missing output of an upstream kernel included, causes no fault
\* and never yields the number 0 where the result is unknown.
C17_NeverZero ==
    MissingFed =>
        /\ PropagatesElsewhere
        /\ (pc = "done" /\ call.fn = "ts_cum_sum_reset") =>
                \A i \in 1..Len(ret) : isnull(call.x[i]) => ret[i] # f(0)

\* C17 as amended: the same for every kernel but ts_cum_sum_reset, which
\* returns the number 0 at every missing input.
C17_ResetIsZero ==
    MissingFed =>
        /\ PropagatesElsewhere
        /\ (pc = "done" /\ call.fn = "ts_cum_sum_reset") =>
                \A i \in 1..Len(ret) : isnull(call.x[i]) => ret[i] = f(0)

\* the output of ts_cum_sum_by on the docstring-like columns r = [2,2,3,3],
\* v = [null,null,5,null] is [null,null,5,8]; ts_cum_sum_reset turns its two
\* nulls into 0
C17_Witness ==
    /\ pc = "done" /\ call.fn = "ts_cum_sum_reset" /\ "upstream" \in DOMAIN call
    /\ call.upstream = "ts_cum_sum_by"
    /\ call.x = <<null, null, f(5), f(8)>>
    /\ ret = <<f(0), f(0), f(5), f(13)>>

-----------------------------------------------------------------------------
(* Claims about ts_scale *)

\* the values the window ending at i holds
ScaleValues(i) ==
    {call.x[p].v : p \in {q \in (i - call.d + 1)..i : q >= 1 /\ ~isnull(call.x[q])}}

\* the window ending at i is defined: it holds as many values as
\* min_samples, the package default or else d asks for
ScaleDefined(i) ==
    LET n == Cardinality({q \in (i - call.d + 1)..i : q >= 1 /\ ~isnull(call.x[q])})
    IN n >= 1 /\ n >= IF call.min_samples # None /\ call.min_samples[1] # 0
                      THEN call.min_samples[1]
                      ELSE IF MIN_SAMPLES # None THEN MIN_SAMPLES[1] ELSE call.d

WindowMax(i) == CHOOSE u \in ScaleValues(i) : \A w \in ScaleValues(i) : w <= u
WindowMin(i) == CHOOSE u \in ScaleValues(i) : \A w \in ScaleValues(i) : w >= u

\* the cell c is the number n / d
IsQuotient(c, n, d) ==
    /\ c.t = "num"
    /\ c.v * d = n * (IF "den" \in DOMAIN c THEN c.den ELSE 1)

\* the output at i is (x - min) / (max - min), missing when x is
ScaledAt(i) ==
    IF isnull(call.x[i]) THEN isnull(ret[i])
    ELSE IsQuotient(ret[i], call.x[i].v - WindowMin(i), WindowMax(i) - WindowMin(i))

\* C18: ts_scale(x, d): where the window's maximum equals its minimum the
\* output is missing rather than a number or a fault; at every other
\* position with a defined window it is (x - min) / (max - min).
C18_MissingWhenFlat ==
    Done("ts_scale") =>
        \A i \in 1..Len(ret) : ScaleDefined(i) =>
            IF WindowMax(i) = WindowMin(i) THEN isnull(ret[i]) ELSE ScaledAt(i)

\* C18 as amended: where the maximum equals the minimum the output is the
\* number 0; elsewhere it is (x - min) / (max - min).
C18_ZeroWhenFlat ==
    Done("ts_scale") =>
        \A i \in 1..Len(ret) : ScaleDefined(i) =>
            IF WindowMax(i) = WindowMin(i) THEN ret[i] = f(0) ELSE ScaledAt(i)

\* windows [2,2,2] (flat, output 0) and [2,2,3] (output 1) of d = 3
C18_Witness ==
    /\ Done("ts_scale")
    /\ call.x = <<f(2), f(2), f(2), f(3)>> /\ call.d = 3
    /\ call.min_samples = None /\ MIN_SAMPLES = None
    /\ ret[3] = f(0) /\ ret[4] = f(1)

-----------------------------------------------------------------------------
(* Claims about ts_shifts_v1 and ts_shifts_v2 *)

\* the engine's & on two cells: false if either is false, else null if
\* either is null, else true
and3(p, q) ==
    IF p = False \/ q = False THEN False
    ELSE IF isnull(p) \/ isnull(q) THEN null
    ELSE True

\* the cell of column x at position t, null before the first row
At(x, t) == IF t >= 1 THEN x[t] ELSE null

\* conds[1] at t & conds[2] at t - 1 & ... & conds[n] at t - (n - 1)
RECURSIVE AndChain(_, _, _)
AndChain(conds, t, n) ==
    IF n = 1 THEN At(conds[1], t)
    ELSE and3(AndChain(conds, t, n - 1), At(conds[n], t - (n - 1)))

\* C19: ts_shifts_v1(a0, ..., an) has the length of its columns and at every
\* position t it is a0 at t & a1 at t-1 & ... & an at t-n under the
\* three-valued AND, that is a0.shift(0) & a1.shift(1) & ... & an.shift(n).
C19_ShiftAndChain ==
    Done("ts_shifts_v1") =>
        /\ Len(ret) = Len(call.args[1])
        /\ \A t \in 1..Len(ret) : ret[t] = AndChain(call.args, t, Len(call.args))

\* the docstring example: a, b one row back, c two rows back
C19_Witness ==
    /\ Done("ts_shifts_v1")
    /\ call.args = <<DocA, DocB, DocC>>
    /\ ret = <<null, False, False, True, True, True>>

\* the pairs of a ts_shifts_v2 call
NPairs == Len(call.args) \div 2
Cond(i) == call.args[2 * i - 1]
Count(i) == call.args[2 * i]

\* how many conditions the pairs before the i-th one stand for
RECURSIVE CountsBefore(_)
CountsBefore(i) == IF i = 1 THEN 0 ELSE CountsBefore(i - 1) + Count(i - 1)

\* the list in which each condition ci is repeated ni times in order
Repeated ==
    [m \in 1..CountsBefore(NPairs + 1) |->
        Cond(CHOOSE i \in 1..NPairs : CountsBefore(i) < m /\ m <= CountsBefore(i) + Count(i))]

\* C20: ts_shifts_v2(c1, n1, c2, n2, ...) equals ts_shifts_v1 on the list in
\* which each ci is repeated ni times in order, so it is the & of that list's
\* members shifted by 0, 1, 2, ...
C20_RepeatsThenV1 ==
    Done("ts_shifts_v2") =>
        /\ ret = ts_shifts_v1(Repeated)
        /\ Len(ret) = Len(Cond(1))
        /\ \A t \in 1..Len(ret) : ret[t] = AndChain(Repeated, t, Len(Repeated))

\* ts_shifts_v2(a, 1, b, 2) is a.shift(0) & b.shift(1) & b.shift(2)
C20_Witness ==
    /\ Done("ts_shifts_v2")
    /\ call.args = ShiftsV2Example
    /\ ret = <<null, False, False, False, True, True>>
    /\ ret = [t \in 1..Len(DocA) |->
                and3(and3(shift(DocA, 0)[t], shift(DocB, 1)[t]), shift(DocB, 2)[t])]

-----------------------------------------------------------------------------
(* Claims about ts_shifts_v3 *)

\* the engine's | on two cells: true if either is true, else null if either
\* is null, else false
or3(p, q) ==
    IF p = True \/ q = True THEN True
    ELSE IF isnull(p) \/ isnull(q) THEN null
    ELSE False

\* the triples of a ts_shifts_v3 call
NTriples == Len(call.args) \div 3
Cond3(i) == call.args[3 * i - 2]
Start(i) == call.args[3 * i - 1]
End(i) == call.args[3 * i]

\* every combination of repeat counts within the closed ranges
Combinations == {cn \in [1..NTriples -> UNION {Start(i)..End(i) : i \in 1..NTriples}] :
                    \A i \in 1..NTriples : Start(i) <= cn[i] /\ cn[i] <= End(i)}

\* ts_shifts_v2(c1, n1, c2, n2, ...) for the counts cn
V2Of(cn) == ts_shifts_v2([j \in 1..(2 * NTriples) |->
                IF j % 2 = 1 THEN Cond3((j + 1) \div 2) ELSE cn[j \div 2]])

\* C21: ts_shifts_v3(c1, s1, e1, ...) is, at every position, the three-valued
\* OR over every combination of counts si <= ni <= ei of
\* ts_shifts_v2(c1, n1, ...): true if one of them is true, else null if one
\* of them is null, else false.
C21_OrOverCounts ==
    Done("ts_shifts_v3") =>
        /\ Len(ret) = Len(Cond3(1))
        /\ LET outs == {V2Of(cn) : cn \in Combinations}
           IN \A t \in 1..Len(ret) :
                ret[t] = IF \E o \in outs : o[t] = True THEN True
                         ELSE IF \E o \in outs : isnull(o[t]) THEN null
                         ELSE False

\* ts_shifts_v3(a, 1, 3, b, 2, 2) is ts_shifts_v2(a, 1, b, 2) |
\* ts_shifts_v2(a, 2, b, 2) | ts_shifts_v2(a, 3, b, 2)
C21_Witness ==
    /\ Done("ts_shifts_v3")
    /\ call.args = ShiftsV3Example
    /\ ret = <<null, False, False, False, True, True>>
    /\ ret = [t \in 1..Len(DocA) |->
                or3(or3(ts_shifts_v2(<<DocA, 1, DocB, 2>>)[t],
                        ts_shifts_v2(<<DocA, 2, DocB, 2>>)[t]),
                    ts_shifts_v2(<<DocA, 3, DocB, 2>>)[t])]

-----------------------------------------------------------------------------
(* Claims about ts_product *)

\* the product of the numbers x holds at the positions lo..hi, a missing
\* value leaving the product as it is
RECURSIVE ExactProduct(_, _, _)
ExactProduct(x, lo, hi) ==
    IF lo > hi THEN 1
    ELSE (IF x[hi].t = "num" THEN x[hi].v ELSE 1) * ExactProduct(x, lo, hi - 1)

\* the window ending at i holds a zero
HasZero(x, i, d) == \E p \in Held(x, i, d) : x[p].v = 0

\* C22: every defined output of ts_product(x, d) is the exact product of the
\* non-missing values of the window [i-d+1, i]: exactly 0 when the window
\* holds a zero, and the exact non-zero product when it holds none, also
\* right after a zero has left the window.
C22_ExactProduct ==
    Done("ts_product") =>
        \A i \in 1..Len(ret) : ret[i].t = "num" =>
            /\ ret[i].v = ExactProduct(call.x, oldest(i, call.d), i)
            /\ HasZero(call.x, i, call.d) => ret[i] = f(0)
            /\ ~HasZero(call.x, i, call.d) => ret[i].v # 0

\* the zero is in the window at position 2 and has left it at position 3
C22_Witness ==
    /\ Done("ts_product")
    /\ call.x = <<f(0), f(2), f(2)>> /\ call.d = 2
    /\ call.min_samples = None /\ MIN_SAMPLES = None
    /\ ret[2] = f(0) /\ ret[3] = f(4)

-----------------------------------------------------------------------------
(* Claims about the two encodings of a missing value *)

\* the places <<column, row>> of the call's frame that hold a null
MissingAt ==
    {ji \in (1..Len(frame)) \X (1..Len(frame[1])) : isnull(frame[ji[1]][ji[2]])}

\* the columns cols with the nulls at the places S written as NaN
AsNaN(cols, S) ==
    [j \in 1..Len(cols) |->
        [i \in 1..Len(cols[j]) |->
            IF isnull(cols[j][i]) /\ <<j, i>> \in S THEN nan ELSE cols[j][i]]]

\* the windowed wrapper of the call on the columns cols, the scalar
\* arguments as in the call
CallAgain(cols) ==
    CASE call.fn = "ts_arg_max" ->
            ts_arg_max(cols[1], call.d, call.reverse, call.min_samples)
      [] call.fn = "ts_arg_min" ->
            ts_arg_min(cols[1], call.d, call.reverse, call.min_samples)
      [] call.fn = "ts_moment" -> ts_moment(cols[1], call.d, call.k, call.min_samples)
      [] call.fn = "ts_product" -> ts_product(cols[1], call.d, call.min_samples)
      [] call.fn = "ts_co_skewness" ->
            ts_co_skewness(cols[1], cols[2], call.d, 0, call.min_samples)
      [] call.fn = "ts_co_kurtosis" ->
            ts_co_kurtosis(cols[1], cols[2], call.d, 0, call.min_samples)
      [] call.fn = "ts_partial_corr" ->
            ts_partial_corr(cols[1], cols[2], cols[3], call.d, call.min_samples)
      [] call.fn = "ts_triple_corr" ->
            ts_triple_corr(cols[1], cols[2], cols[3], call.d, call.min_samples)

\* C23: every windowed kernel: writing the missing values of the input as NaN
\* at any set of places (so any two mixtures of null and NaN for the same
\* missing places) gives the same output: the same positions missing and
\* the same value at every other position.
C23_NaNAsNull ==
    (pc = "done" /\ call.fn \in WindowedWrappers) =>
        \A S \in SUBSET MissingAt :
            LET o == CallAgain(AsNaN(frame, S))
            IN ~o.raised /\ o.out = ret

\* a missing value inside a window that still gives a value
C23_Witness ==
    /\ Done("ts_product")
    /\ call.x = <<f(2), null, f(2)>> /\ call.d = 3 /\ call.min_samples = Some(2)
    /\ ret = <<null, null, f(4)>>
    /\ ts_product(<<f(2), nan, f(2)>>, 3, Some(2)).out = ret

-----------------------------------------------------------------------------
(* Claims about invocations side by side *)

\* the column the wrapper of call c returns, as a function of c alone
OutputOf(c) ==
    IF c.fn = "ts_signals_to_size"
    THEN ts_signals_to_size(c.long_entry, c.long_exit, c.short_entry, c.short_exit,
                            c.accumulate, c.action).out
    ELSE ts_cum_sum_reset(c.x).out

\* C24: the output of every completed call is the function of its own
\* arguments, whatever the thread called before and whatever the other thread
\* is doing; so two completed calls with equal arguments have equal outputs.
C24_NoCrossCallState ==
    /\ \A t \in Threads :
        threads[t].pc = "done" => threads[t].out = OutputOf(threads[t].call)
    /\ \A t, u \in Threads :
        (threads[t].pc = "done" /\ threads[u].pc = "done"
            /\ threads[t].call = threads[u].call) => threads[t].out = threads[u].out

\* thread a has completed its second call, on two long entries, while
\* thread b is half way through the same call
C24_Witness ==
    /\ threads["a"].pc = "done" /\ threads["a"].before
    /\ threads["a"].call.fn = "ts_signals_to_size"
    /\ threads["a"].call.long_entry = <<TRUE, TRUE>>
    /\ ~threads["a"].call.action
    /\ threads["a"].out = <<f(1), f(2)>>
    /\ threads["b"].pc = "running" /\ threads["b"].i = 1
    /\ threads["b"].call = threads["a"].call

-----------------------------------------------------------------------------
(* Claims about cs_top_bottom *)

\* the distinct values of the cross-section
CsValues == {call.x[j].v : j \in {q \in 1..Len(call.x) : call.x[q].t = "num"}}

\* the value at i is among the k lowest, the k highest distinct values
AmongLowest(i) == Cardinality({u \in CsValues : u < call.x[i].v}) < call.k
AmongHighest(i) == Cardinality({u \in CsValues : u > call.x[i].v}) < call.k

\* C25 as stated: every element among the k lowest distinct values is marked
\* -1, every element among the k highest distinct values is marked 1, every
\* other non-null element 0, a null gives null, and the output is in
\* {-1, 0, 1}.
C25_LowestAlwaysMinusOne ==
    Done("cs_top_bottom") =>
        /\ Len(ret) = Len(call.x)
        /\ \A i \in 1..Len(ret) :
            IF isnull(call.x[i]) THEN isnull(ret[i])
            ELSE /\ ret[i] \in {f(-1), f(0), f(1)}
                 /\ AmongLowest(i) => ret[i] = f(-1)
                 /\ AmongHighest(i) => ret[i] = f(1)
                 /\ (~AmongLowest(i) /\ ~AmongHighest(i)) => ret[i] = f(0)

\* C25 as amended: an element among the k lowest distinct values and not
\* among the k highest is marked -1, one among the k highest and not among
\* the k lowest is marked 1, every other non-null element, also one that is
\* among both, is marked 0; a null gives null.  The docstring example comes
\* out as printed.
C25_BothIsZero ==
    Done("cs_top_bottom") =>
        /\ Len(ret) = Len(call.x)
        /\ \A i \in 1..Len(ret) :
            IF isnull(call.x[i]) THEN isnull(ret[i])
            ELSE ret[i] = IF AmongLowest(i) /\ ~AmongHighest(i) THEN f(-1)
                          ELSE IF AmongHighest(i) /\ ~AmongLowest(i) THEN f(1)
                          ELSE f(0)
        /\ (call.x = CsExample /\ call.k = CsExampleK) =>
                ret = <<null, f(-1), f(-1), f(-1), f(-1), f(0), f(1), f(1), f(1), f(1)>>

\* three distinct values and k = 2: the middle one is among both
C25_Witness ==
    /\ Done("cs_top_bottom")
    /\ call.x = <<f(1), f(2), f(3)>> /\ call.k = 2
    /\ ret = <<f(-1), f(0), f(1)>>

-----------------------------------------------------------------------------
(* Claims about the reverse flag *)

\* the column the call's wrapper returns on the same arguments with
\* reverse = True
Reversed ==
    IF call.fn = "ts_arg_max"
    THEN ts_arg_max(call.x, call.d, TRUE, call.min_samples).out
    ELSE ts_arg_min(call.x, call.d, TRUE, call.min_samples).out

\* one position only of the window ending at i holds the extreme
UniqueExtreme(i) ==
    LET V == Held(call.x, i, call.d)
    IN Cardinality({p \in V : Extreme(call.x, V, p)}) = 1

\* C26: ts_arg_max / ts_arg_min with reverse=false: for every full window
\* with a unique extreme a defined output is the offset of the extreme from
\* the oldest position of the window (0 when the oldest position holds it),
\* it equals d-1 minus the output with reverse=true, and it lies in [0, d-1].
C26_OffsetFromOldest ==
    (ArgCall /\ ~call.reverse) =>
        \A i \in 1..Len(ret) :
            (~isnull(ret[i]) /\ i >= call.d /\ UniqueExtreme(i)) =>
                LET V == Held(call.x, i, call.d)
                    first == i - call.d + 1
                IN  /\ ret[i].v \in 0..(call.d - 1)
                    /\ Extreme(call.x, V, first + ret[i].v)
                    /\ Extreme(call.x, V, first) => ret[i] = f(0)
                    /\ ~isnull(Reversed[i])
                    /\ ret[i].v = call.d - 1 - Reversed[i].v

\* the maximum is at the oldest position of the window: 0 with
\* reverse=false, 2 with reverse=true
C26_Witness ==
    /\ Done("ts_arg_max") /\ ~call.reverse
    /\ call.x = <<f(2), f(1), f(0)>> /\ call.d = 3
    /\ call.min_samples = None /\ MIN_SAMPLES = None
    /\ ret[3] = f(0) /\ Reversed[3] = f(2)

-----------------------------------------------------------------------------
(* Claims about ts_sum_split_by with overlapping groups *)

\* a ts_sum_split_by call with columns of one length, a window of at least
\* one row and 2k > d has returned or raised
OverlapCall ==
    /\ pc \in {"done", "raised"} /\ call.fn = "ts_sum_split_by"
    /\ Len(call.x) = Len(call.by)
    /\ call.d >= 1 /\ 2 * call.k > call.d

\* C27: ts_sum_split_by with 2k > d is not rejected: the call completes, and
\* for every full window the group of the k lowest and the group of the k
\* highest values of by share a position, and each sum counts every x of its
\* own group, the shared ones in both; with k >= d both sums are the sum of
\* the whole window.
C27_OverlapCounted ==
    OverlapCall =>
        /\ pc = "done"
        /\ \A i \in call.d..Len(ret) :
            LET W == SplitWindow(i)
                n == IF call.k > call.d THEN call.d ELSE call.k
            IN  /\ \E S1 \in SUBSET W, S2 \in SUBSET W :
                    /\ LowestK(call.by, W, n, S1) /\ HighestK(call.by, W, n, S2)
                    /\ S1 \cap S2 # {}
                    /\ ret[i] = <<f(SumOver(call.x, S1)), f(SumOver(call.x, S2))>>
                /\ \A S1 \in SUBSET W, S2 \in SUBSET W :
                    (LowestK(call.by, W, n, S1) /\ HighestK(call.by, W, n, S2)) =>
                        S1 \cap S2 # {}
                /\ call.k >= call.d =>
                    ret[i] = <<f(SumOver(call.x, W)), f(SumOver(call.x, W))>>

\* d = 3, k = 2: the middle value of by is in both groups, its x = 3 is
\* counted in 1 + 3 and in 3 + 3
C27_Witness ==
    /\ Done("ts_sum_split_by")
    /\ call.x = <<f(1), f(3), f(3)>> /\ call.by = <<f(1), f(2), f(3)>>
    /\ call.d = 3 /\ call.k = 2
    /\ ret[3] = <<f(4), f(6)>>

-----------------------------------------------------------------------------
(* Claims about the resolution of minp *)

\* minp by the rule: min_samples when given and not 0, else the package
\* default as it was when the wrapper was called when set and not 0, else d
Resolved(c) ==
    IF c.min_samples # None /\ c.min_samples[1] # 0 THEN c.min_samples[1]
    ELSE IF c.default # None /\ c.default[1] # 0 THEN c.default[1]
    ELSE c.d

\* C28: the eight windowed wrappers: minp is the caller's min_samples when
\* given and non-zero, otherwise polars_ta.MIN_SAMPLES when set and
\* non-zero, otherwise d; min_samples=0 counts as omitted; the value is the
\* one resolved when the wrapper was called, whatever the package default is
\* when the expression is evaluated.
C28_MinpFixedAtCall ==
    (pc \in {"built", "done", "raised"} /\ call.fn \in LazyWrappers) =>
        /\ call.minp = Resolved(call)
        /\ pc # "built" =>
            LET o == evaluate(call, Resolved(call))
            IN (pc = "raised") = o.raised /\ ret = o.out

\* min_samples=0 with the default 1 at the call and 2 at the evaluation:
\* one value in the window is enough
C28_Witness ==
    /\ Done("ts_product")
    /\ call.x = <<f(2), null>> /\ call.d = 2
    /\ call.min_samples = Some(0) /\ call.default = Some(1) /\ MIN_SAMPLES = Some(2)
    /\ ret = <<f(2), f(2)>>

-----------------------------------------------------------------------------
(* Claims about the sign of the reset cumulative sum *)

\* C29: ts_cum_sum_reset: at every step of every input the output is a
\* number, never missing; it is 0 exactly when the current input is zero or
\* missing; otherwise it has the sign of the current input and a magnitude
\* of at least that of the current input.
C29_SignAndMagnitude ==
    Done("ts_cum_sum_reset") =>
        \A i \in 1..Len(ret) :
            /\ ret[i].t = "num"
            /\ ret[i].v = 0 <=> (isnull(call.x[i]) \/ call.x[i].v = 0)
            /\ (~isnull(call.x[i]) /\ call.x[i].v # 0) =>
                    /\ sign(ret[i].v) = sign(call.x[i].v)
                    /\ abs(ret[i].v) >= abs(call.x[i].v)

\* a running sum of 2, a sign change, a missing input and a restart
C29_Witness ==
    /\ Done("ts_cum_sum_reset")
    /\ call.x = <<f(1), f(1), f(-1), null>>
    /\ ret = <<f(1), f(2), f(-1), f(0)>>

-----------------------------------------------------------------------------
(* Claims about what a cum-by output depends on *)

\* the most recent position at or before i where v holds a value, 0 if none
LastPresent(v, i) ==
    LET before == {j \in Present(v) : j <= i}
    IN IF before = {} THEN 0 ELSE CHOOSE j \in before : \A k \in before : k <= j

\* the wrapper of the finished call, applied to other columns
ByAgain(r, v) ==
    IF call.fn = "ts_cum_sum_by" THEN ts_cum_sum_by(r, v).out
    ELSE ts_cum_prod_by(r, v).out

\* C30: for ts_cum_sum_by and ts_cum_prod_by the output at a step depends
\* only on the most recent non-missing v at or before the step and on the r
\* strictly after that v's position up to the step: replacing r or v at one
\* earlier position, or r at the position of that v itself, by any other
\* value leaves the output at the step unchanged.
C30_ReSeeding ==
    (Done("ts_cum_sum_by") \/ Done("ts_cum_prod_by")) =>
        LET n == Len(call.r)
            seed == [i \in 1..n |-> LastPresent(call.v, i)]
        IN \A q \in 1..n :
            /\ \A c \in ByCellsR \ {call.r[q]} :
                LET again == ByAgain([call.r EXCEPT ![q] = c], call.v)
                IN \A i \in q..n : seed[i] >= q => again[i] = ret[i]
            /\ \A c \in ByCellsV \ {call.v[q]} :
                LET again == ByAgain(call.r, [call.v EXCEPT ![q] = c])
                IN \A i \in (q + 1)..n : seed[i] > q => again[i] = ret[i]

\* v is set at the second of four steps, after a first value and a first r
\* that other values could replace; the last two outputs accumulate r
C30_Witness ==
    /\ Done("ts_cum_sum_by")
    /\ call.r = <<f(2), f(3), f(-1), f(2)>>
    /\ call.v = <<f(0), f(5), null, null>>
    /\ LastPresent(call.v, 4) = 2
    /\ ret = <<f(0), f(5), f(4), f(6)>>
    /\ ByAgain(<<f(3), f(2), f(-1), f(2)>>, <<null, f(5), null, null>>)[4] = f(6)

====
